---- MODULE Spec2Model ----
(***************************************************************************)
(* Model of the CVRP backend broker (src/backend/backend_server.py).       *)
(*                                                                         *)
(* The server is a Flask application started with app.run(), which serves  *)
(* every inbound HTTP call on its own worker thread.  The handlers share   *)
(* the module-level CVRPBackendServer instance and take no lock, so a      *)
(* handler can be preempted between any two accesses of the shared         *)
(* dictionaries.  Each handler is therefore modelled as a sequence of      *)
(* steps, one per access of shared state; purely local computation         *)
(* (parsing, validation, building the answer) is folded into the           *)
(* neighbouring step.                                                      *)
(***************************************************************************)
EXTENDS Naturals, Integers, Sequences, FiniteSets, TLC

\* ------------------------------------------------------------------ bounds
NThreads == 2       \* concurrent worker threads
MaxReq == 2         \* requests the ledger can hold in a run
MaxConfirms == 2    \* fleet configurations confirmed in a run
MaxCalls == 4       \* HTTP calls served in a run
MaxLines == 2       \* lines the agents write to their logs in a run

Threads == 1..NThreads
Ids == 1..MaxReq
Routes == {"S1", "S2"}

\* ------------------------------------------------------------------ state
VARIABLES
    requests,                  \* server.requests: insertion-ordered dict, as a
                               \* sequence of [id, data, status] entries
    solutions,                 \* server.solutions: id -> stored solution
    pc,                        \* per thread: position in its handler
    loc,                       \* per thread: local variables of the handler
    resp,                      \* per thread: the HTTP answer, when pc = "done"
    claimCount,                \* history: id -> number of polls that returned it
    repDone,                   \* history: id -> route of the last finished report
    submitted,                 \* history: id -> payload handed to Submit
    calls,                     \* history: number of calls begun so far
    vehicle_config,            \* server.vehicle_config: the one-slot mailbox
    vehicle_config_timestamp,  \* server.vehicle_config_timestamp
    now,                       \* the clock time.time() reads
    cpc,                       \* per thread: position in a fleet-config handler
    cloc,                      \* per thread: the local variable config
    cresp,                     \* per thread: the HTTP answer, when cpc = "done"
    nConfirmed,                \* history: number of configurations stored
    cseen,                     \* history: per thread, nConfirmed when its poll tested the slot
    stampOf,                   \* history: configuration -> the time its confirm call stamped
    delivered,                 \* history: configuration -> number of polls it was answered to
    agent_status,              \* server.agent_status: insertion-ordered dict, as a
                               \* sequence of [name, status, type, info] entries
    apc,                       \* per thread: position in an agent-status handler
    aloc,                      \* per thread: the local list agents and the dict iterator
    aresp,                     \* per thread: the HTTP answer, when apc = "done"
    lastUpdate,                \* history: name -> the last accepted update for it
    adirty,                    \* history: per thread, an update was stored since
                               \* its listing began
    vehicle_positions,         \* server.vehicle_positions: name -> position_data
    vnow,                      \* the clock time.time() reads in update_vehicle_position
    vpc,                       \* per thread: position in a movement handler
    vloc,                      \* per thread: the path parameter vehicle_name
    vresp,                     \* per thread: the HTTP answer, when vpc = "done"
    lastPos,                   \* history: name -> position_data of its last accepted update
    session_vehicles,          \* frontend: session['vehicles'] of the browser session
    fresp,                     \* frontend: the last answer given to the browser
    log_dir,                   \* the run's folder under LOGS_DIR exists
    log_files,                 \* agent name -> its <agent>_conversations.log
    out,                       \* the last answer of a log view, with the text it read
    kept,                      \* history: the answer of an earlier call of a log view
    logs_base_dir,             \* backend: the names of the files in server.logs_base_dir
    listing,                   \* backend: the agents of the last answer of GET /log
    lookup                     \* backend: the last answer of GET /log/<agent_name>

ledgerVars == <<requests, solutions, pc, loc, resp, claimCount, repDone, submitted>>
configVars == <<vehicle_config, vehicle_config_timestamp, now, cpc, cloc, cresp,
                nConfirmed, cseen, stampOf, delivered>>
agentVars == <<agent_status, apc, aloc, aresp, lastUpdate, adirty>>
vehicleVars == <<vehicle_positions, vnow, vpc, vloc, vresp, lastPos>>
frontVars == <<session_vehicles, fresp>>
logVars == <<log_dir, log_files, out, kept>>
nameVars == <<logs_base_dir, listing, lookup>>
otherThanLedger == <<configVars, agentVars, vehicleVars, frontVars, logVars,
                    nameVars>>
otherThanConfig == <<ledgerVars, agentVars, vehicleVars, frontVars, logVars,
                    nameVars>>
otherThanAgents == <<ledgerVars, configVars, vehicleVars, frontVars, logVars,
                    nameVars>>
otherThanVehicles == <<ledgerVars, configVars, agentVars, frontVars, logVars,
                    nameVars>>
otherThanFront == <<ledgerVars, configVars, agentVars, vehicleVars, logVars, nameVars, calls>>
otherThanLogs == <<ledgerVars, configVars, agentVars, vehicleVars, frontVars, nameVars, calls>>
otherThanNames == <<ledgerVars, configVars, agentVars, vehicleVars, frontVars, logVars, calls>>
vars == <<requests, solutions, pc, loc, resp, claimCount, repDone, submitted, calls,
          vehicle_config, vehicle_config_timestamp, now, cpc, cloc, cresp,
          nConfirmed, cseen, stampOf, delivered,
          agent_status, apc, aloc, aresp, lastUpdate, adirty,
          vehicle_positions, vnow, vpc, vloc, vresp, lastPos,
          session_vehicles, fresp, log_dir, log_files, out, kept,
          logs_base_dir, listing, lookup>>

\* ------------------------------------------------------------ value shapes
FullCustomer == {"id", "demand", "x", "y"}
PartialCustomer == {"id", "demand", "x"}

\* A submission body: ctype tells whether the JSON body is missing/empty,
\* lacks the customers field, carries a non-list there, or carries a list.
NoData == [ctype |-> "nojson", customers |-> <<>>]
SubmitInputs ==
    { NoData,
      [ctype |-> "missing", customers |-> <<>>],
      [ctype |-> "notalist", customers |-> <<>>],
      [ctype |-> "list", customers |-> <<>>],
      [ctype |-> "list", customers |-> <<FullCustomer>>],
      [ctype |-> "list", customers |-> <<PartialCustomer>>],
      [ctype |-> "list", customers |-> <<FullCustomer, PartialCustomer>>] }

\* A solution body: request_id 0 stands for a body without request_id,
\* route "none" for an empty body.
NoSolution == [request_id |-> 0, route |-> "none"]
ReportInputs ==
    {NoSolution} \cup [request_id : Ids \cup {0}, route : Routes]

\* A vehicle of a confirm body, with the fields it carries.
VehicleKeys == {"name", "capacity", "maxDistance"}
FullVehicle(n) == [name |-> n, keys |-> VehicleKeys]
PartialVehicle(n) == [name |-> n, keys |-> {"name", "capacity"}]

\* A confirm body: vtype tells whether the JSON body is missing/empty, lacks
\* the vehicles field, carries a non-list there, or carries a list; depot
\* "absent" stands for a body without depot.
ConfirmInputs ==
    { [vtype |-> "nojson", vehicles |-> <<>>, depot |-> "absent"],
      [vtype |-> "missing", vehicles |-> <<>>, depot |-> "D1"],
      [vtype |-> "notalist", vehicles |-> <<>>, depot |-> "D1"],
      [vtype |-> "list", vehicles |-> <<>>, depot |-> "D1"],
      [vtype |-> "list", vehicles |-> <<FullVehicle("V1"), PartialVehicle("V2")>>, depot |-> "D1"],
      [vtype |-> "list", vehicles |-> <<FullVehicle("V1")>>, depot |-> "absent"],
      [vtype |-> "list", vehicles |-> <<FullVehicle("V1"), FullVehicle("V2")>>, depot |-> "D1"] }

\* The slot holds None or the dictionary a confirm call built; gen tells the
\* dictionaries of different confirm calls apart (object identity).
Gens == 1..MaxConfirms
NoConfig == [vehicles |-> <<>>, depot |-> "none", gen |-> 0]
NoCfgResp == [code |-> 0, vehicles |-> <<>>, depot |-> "none", timestamp |-> 0, gen |-> 0]

\* Agent names are strings; a string is the sequence of its character
\* codes, so that the order Python puts on strings can be computed.  NoName
\* is the absent or empty name (both are falsy at line 358).
AgentNames == {<<1, 0>>, <<2>>, <<3>>}
NoName == <<>>
AgentTypes == {"mra", "da", "gui"}

\* An agent-status body: body tells whether the JSON body is missing/empty;
\* "" stands for a missing or empty agent_type or status, info {} for a
\* missing or empty info (line 356 reads a missing info as {}).
AgentBody(n, ty, st, info) ==
    [body |-> "json", agent_name |-> n, agent_type |-> ty, status |-> st, info |-> info]
NoAgentBody == [body |-> "nojson", agent_name |-> NoName, agent_type |-> "",
                status |-> "", info |-> {}]
AgentInputs ==
    { NoAgentBody,
      AgentBody(NoName, "da", "active", {}),
      AgentBody(<<2>>, "", "active", {}),
      AgentBody(<<2>>, "da", "", {}),
      AgentBody(<<1, 0>>, "da", "active", {"capacity"}),
      AgentBody(<<1, 0>>, "da", "inactive", {}),
      AgentBody(<<2>>, "da", "active", {"capacity"}),
      AgentBody(<<2>>, "mra", "active", {"depot"}),
      AgentBody(<<3>>, "mra", "active", {}),
      AgentBody(<<3>>, "gui", "active", {}) }

\* An entry of agent_status and the record listed for it.  The entry's
\* 'timestamp' (time.time() at the store) is copied unchanged into the
\* listing and read by nothing else; it is left out of both.
NoAgent == [name |-> NoName, status |-> "", type |-> "", info |-> {}]
NoUpdate == [type |-> "", status |-> "", info |-> {}]
NoAgentLoc == [agents |-> <<>>, it_used |-> 0, it_pos |-> 0]
NoAgentResp == [code |-> 0, agent |-> NoName, agents |-> <<>>,
                mra_count |-> 0, da_count |-> 0, total_active |-> 0]

\* A movement body is the set of its <<field, value>> pairs; values are
\* written as strings, "None" for Python's None.
VehicleNames == {"V1", "V2"}
VehicleInputs ==
    { {},
      {<<"x", "3.5">>},
      {<<"vehicle_name", "">>, <<"x", "3.5">>},
      {<<"vehicle_name", "V1">>},
      {<<"vehicle_name", "V1">>, <<"x", "3.5">>, <<"y", "1.0">>, <<"status", "moving">>,
       <<"route_id", "R1">>, <<"target_x", "8.0">>, <<"target_y", "2.0">>},
      {<<"vehicle_name", "V2">>, <<"x", "3.5">>, <<"status", "at_customer">>},
      {<<"vehicle_name", "V2">>, <<"y", "1.0">>, <<"route_id", "R1">>} }

\* No entry under a name of vehicle_positions.
NoPos == [x |-> "none", y |-> "none", status |-> "none", route_id |-> "none",
          target_x |-> "none", target_y |-> "none", timestamp |-> 0]
NoVehResp == [code |-> 0, vehicle |-> "none", position |-> NoPos]

\* What a call of the frontend to the backend comes to: an answer with a
\* status code, or one of the exceptions of the requests library.
\* ConnectTimeout is a ConnectionError and a Timeout; ReadTimeout is a
\* Timeout only; all are RequestExceptions.
BackendExceptions == {"ConnectionError", "ConnectTimeout", "ReadTimeout"}
BackendCodes == {200, 202, 400, 404, 500}
BackendOutcomes ==
    [exc : BackendExceptions, code : {0}] \cup [exc : {"none"}, code : BackendCodes]
NotCalled == [exc |-> "notcalled", code |-> 0]

\* A body of POST /api/vehicles of the frontend: the set of vehicle names
\* it lists, and whether every vehicle carries name, capacity, maxDistance.
NoSession == {"unset"}
VehiclesBodies ==
    { [kind |-> "nojson", names |-> {}, full |-> TRUE],
      [kind |-> "list", names |-> {}, full |-> TRUE],
      [kind |-> "list", names |-> {"V1"}, full |-> TRUE],
      [kind |-> "list", names |-> {"V1", "V2"}, full |-> FALSE],
      [kind |-> "list", names |-> {"V1", "V2"}, full |-> TRUE] }
NoFrontResp == [op |-> "none", code |-> 0, success |-> FALSE, backend |-> NotCalled]

\* Log text.  A log is a sequence of lines and a line a sequence of
\* tokens: a word or punctuation mark W, a run of digits N, a parenthesised
\* pair "(x, y)" P whose two parts are kept as character strings, and a
\* leading bracketed timestamp "[s]" T.  A phrase the code looks for is a
\* run of consecutive tokens; the blank line is the empty sequence.
W(s) == [k |-> "w", s |-> s, n |-> 0, x |-> <<>>, y |-> <<>>]
N(n) == [k |-> "n", s |-> "", n |-> n, x |-> <<>>, y |-> <<>>]
P(x, y) == [k |-> "p", s |-> "", n |-> 0, x |-> x, y |-> y]
T(s) == [k |-> "t", s |-> s, n |-> 0, x |-> <<>>, y |-> <<>>]
Ws(ss) == [i \in 1..Len(ss) |-> W(ss[i])]

\* The lines a dispatcher writes.
DALines ==
    { <<T("t1"), W("DA1"), W("ARRIVED"), W("at"), W("customer"), W("C5"), W("at"),
        P(<<"3", ".", "5">>, <<"7", ".", "2">>)>>,
      <<T("t2"), W("DA1"), W("Moving"), W("to"), P(<<"1", ".", "2", ".", "3">>, <<"4">>)>>,
      <<T("t2"), W("DA1"), W("Moving"), W("to"), P(<<"a">>, <<"4">>)>>,
      <<T("t3"), W("Route"), W("R1"), W("ACCEPTED"), W("added"), W("to"), W("queue"), W("."),
        W("Queue"), W("size"), W(":"), N(2)>>,
      <<T("t4"), W("Processing"), W("route"), W("from"), W("queue"), W(":"), W("R1"),
        W("Remaining"), W("routes"), W("in"), W("queue"), W(":"), N(1)>>,
      <<T("t5"), W("Route"), W("R2"), W("added"), W("to"), W("queue"), W("."),
        W("Queue"), W("size"), W(":"), N(1)>>,
      <<T("t6"), W("Processing"), W("route"), W("from"), W("queue"), W(":"), W("R2"),
        W("Remaining"), W("routes"), W("in"), W("queue"), W(":"), N(0)>>,
      <<T("t7"), W("DA1"), W("RETURNED"), W("to"), W("depot"), W("at"),
        P(<<"0", ".", "0">>, <<"0", ".", "0">>), W("Route"), W("R1"), W("completed")>>,
      <<T("t9"), W("DA1"), W("Starting"), W("route"), W("R2"), W(":"),
        W("RETURNED"), W("to"), W("depot"), W(","), W("ARRIVED"), W("at"), W("customer"),
        W("C7"), W("at"), P(<<"0", "5">>, <<"2", ".", "5", "0">>)>>,
      <<T("t8")>>,
      <<W("no"), W("route"), W("yet")>>,
      <<>> }

\* The lines the route manager writes.
MRALines ==
    { <<T("t1"), W("Solving"), W("Unserved"), W("customers"), W(":"), N(3)>>,
      <<T("t2"), W("Solution"), W("found"), W("Unserved"), W("customers"), W(":"), N(0)>>,
      <<T("t3"), W(">>>"), W("SENT"), W("MESSAGE"), W("to"), W("DA1")>>,
      <<T("t4"), W("Querying"), W("DA"), W(":"), W("DA1"), W("QUERY_VEHICLE_INFO")>>,
      <<W("Assigning"), W("route"), W("R1"), W("ROUTE_ASSIGNMENT"), W("ROUTE_ACCEPTED")>> }

\* Names are strings of characters; "_conversations" and ".log" stand for
\* those substrings of a file name.  The stems an agent's log file can
\* have: the route manager's, dispatchers' with the DA- prefix, another
\* agent's, and the route manager's name in lower case.
LogStems ==
    { <<"M", "R", "A">>,
      <<"D", "A", "-", "D", "A", "1">>,
      <<"D", "A", "-", "D", "A", "-", "1">>,
      <<"G", "U", "I">>,
      <<"m", "r", "a">> }
NoLookup == [agent_name |-> <<>>, published |-> <<>>, searched_file |-> <<>>, code |-> 0,
             log_file |-> <<>>]

\* The agents whose logs the views read, and the lines each writes.
LogAgents == {"MRA", "DA-1"}
LinesOf(a) == IF a = "MRA" THEN MRALines ELSE DALines
NoFile == [exists |-> FALSE, lines |-> <<>>]

\* The answer of a log view: which view, on which agent's log, the text
\* it read, and the fields of its JSON body (error "none": no error key).
NoneTok == [k |-> "none", s |-> "", n |-> 0, x |-> <<>>, y |-> <<>>]
NoQueue == [present |-> FALSE, queue_size |-> 0, current_route |-> NoneTok]
DefaultMra == [status |-> "unknown", vehicles_queried |-> 0, routes_assigned |-> 0,
               unserved_customers |-> 0]
DefaultDa == [present |-> FALSE, status |-> "idle", queue_size |-> 0,
              current_route |-> NoneTok, routes_completed |-> 0]
NoState == [present |-> FALSE, mra |-> DefaultMra, da |-> DefaultDa]
NoOut == [view |-> "none", agent |-> "none",
          dir |-> FALSE, read |-> [a \in LogAgents |-> NoFile],
          error |-> "none", entries |-> <<>>,
          movements |-> <<>>, routes |-> <<>>, queue_status |-> NoQueue,
          state |-> NoState, communications |-> <<>>]

NoLoc == [req_id |-> 0, solution_data |-> NoSolution, it_used |-> 0, it_pos |-> 0,
          snapDone |-> FALSE]
NoResp == [code |-> 0, request_id |-> 0, status |-> "none",
           data |-> NoData, solution |-> NoSolution]

\* ------------------------------------------------------- dictionary helpers
Keys == {requests[i].id : i \in 1..Len(requests)}
Idx(id) == CHOOSE i \in 1..Len(requests) : requests[i].id = id
StatusOf(id) == requests[Idx(id)].status
DataOf(id) == requests[Idx(id)].data
HasSolution(id) == solutions[id] # NoSolution

SetStatus_freshEntry(id, s) ==
    [requests EXCEPT ![Idx(id)] = [id |-> id, data |-> NoData, status |-> s]]

\* requests[request_id]['status'] = s
SetStatus(id, s) == [requests EXCEPT ![Idx(id)].status = s]

Answer(code, id, status, data, sol) ==
    [code |-> code, request_id |-> id, status |-> status, data |-> data, solution |-> sol]

\* A worker thread picks up the next inbound call.
BeginCall == calls < MaxCalls /\ calls' = calls + 1

Init ==
    /\ requests = <<>>
    /\ solutions = [id \in Ids |-> NoSolution]
    /\ pc = [t \in Threads |-> "idle"]
    /\ loc = [t \in Threads |-> NoLoc]
    /\ resp = [t \in Threads |-> NoResp]
    /\ claimCount = [id \in Ids |-> 0]
    /\ repDone = [id \in Ids |-> "none"]
    /\ submitted = [id \in Ids |-> NoData]
    /\ calls = 0
    /\ vehicle_config = NoConfig
    /\ vehicle_config_timestamp = 0
    /\ now = 0
    /\ cpc = [t \in Threads |-> "idle"]
    /\ cloc = [t \in Threads |-> NoConfig]
    /\ cresp = [t \in Threads |-> NoCfgResp]
    /\ nConfirmed = 0
    /\ cseen = [t \in Threads |-> 0]
    /\ stampOf = [g \in Gens |-> 0]
    /\ delivered = [g \in Gens |-> 0]
    /\ agent_status = <<>>
    /\ apc = [t \in Threads |-> "idle"]
    /\ aloc = [t \in Threads |-> NoAgentLoc]
    /\ aresp = [t \in Threads |-> NoAgentResp]
    /\ lastUpdate = [n \in AgentNames |-> NoUpdate]
    /\ adirty = [t \in Threads |-> FALSE]
    /\ vehicle_positions = [n \in VehicleNames |-> NoPos]
    /\ vnow = 0
    /\ vpc = [t \in Threads |-> "idle"]
    /\ vloc = [t \in Threads |-> "none"]
    /\ vresp = [t \in Threads |-> NoVehResp]
    /\ lastPos = [n \in VehicleNames |-> NoPos]
    /\ session_vehicles = NoSession
    /\ fresp = NoFrontResp
    /\ log_dir = FALSE
    /\ log_files = [a \in LogAgents |-> NoFile]
    /\ out = NoOut
    /\ kept = NoOut
    /\ logs_base_dir = {}
    /\ listing = {}
    /\ lookup = NoLookup

\* ------------------------------------------------- POST /api/solve-cvrp
submit_validate_firstOnly(p) ==
    IF p.ctype = "nojson" THEN "No JSON data provided"
    ELSE IF p.ctype # "list" THEN "Missing or invalid field: customers (must be array)"
    ELSE IF Len(p.customers) > 0 /\ ~(FullCustomer \subseteq p.customers[1])
         THEN "Customer must have: id, demand, x, y"
    ELSE "ok"

\* The checks of submit_solution on a new request (lines 133-145).
submit_validate(p) ==
    IF p.ctype = "nojson" THEN "No JSON data provided"
    ELSE IF p.ctype # "list" THEN "Missing or invalid field: customers (must be array)"
    ELSE IF \E i \in 1..Len(p.customers) : ~(FullCustomer \subseteq p.customers[i])
         THEN "Customer must have: id, demand, x, y"
    ELSE "ok"

NewId_reuseLast == IF requests = <<>> THEN 1 ELSE Len(requests)

\* uuid.uuid4(): an id no request of the ledger carries.
NewId == Len(requests) + 1

\* CVRPBackendServer.add_request: one dictionary store.
add_request(id, p) == Append(requests, [id |-> id, data |-> p, status |-> "pending"])

\* submit_solution, branch for a new request: validation is local, the
\* insertion is a single store, so the handler is one step.
SubmitRequest(t, p) ==
    /\ pc[t] = "idle"
    /\ IF submit_validate(p) = "ok"
       THEN /\ Len(requests) < MaxReq
            /\ requests' = add_request(NewId, p)
            /\ submitted' = [submitted EXCEPT ![NewId] = p]
            /\ resp' = [resp EXCEPT ![t] = Answer(202, NewId, "submitted", NoData, NoSolution)]
       ELSE /\ resp' = [resp EXCEPT ![t] = Answer(400, 0, submit_validate(p), NoData, NoSolution)]
            /\ UNCHANGED <<requests, submitted>>
    /\ pc' = [pc EXCEPT ![t] = "done"]
    /\ UNCHANGED <<solutions, loc, claimCount, repDone>>
    /\ BeginCall
    /\ UNCHANGED otherThanLedger

\* ------------------------------------------------- GET /api/solve-cvrp
\* poll_request: action check, then get_pending_request creates the
\* iterator over self.requests.items().
PollStart(t, action) ==
    /\ pc[t] = "idle"
    /\ IF action = "poll"
       THEN /\ pc' = [pc EXCEPT ![t] = "iter"]
            /\ loc' = [loc EXCEPT ![t] = [NoLoc EXCEPT !.it_used = Len(requests)]]
            /\ UNCHANGED resp
       ELSE /\ pc' = [pc EXCEPT ![t] = "done"]
            /\ resp' = [resp EXCEPT ![t] = Answer(400, 0, "Invalid action", NoData, NoSolution)]
            /\ UNCHANGED loc
    /\ BeginCall
    /\ UNCHANGED <<requests, solutions, claimCount, repDone, submitted>>
    /\ UNCHANGED otherThanLedger

IterItem_newestFirst(pos) == requests[Len(requests) + 1 - pos]

\* The entry self.requests.items() yields at position pos: dictionaries
\* iterate in insertion order.
IterItem(pos) == requests[pos]

\* One advance of the dictionary iterator (the for statement of line 53).
\* The iterator raises RuntimeError when the dictionary changed size since
\* the iterator was created; poll_request catches nothing, so the call
\* answers 500.  An exhausted iterator ends the loop: return None, None,
\* answered 204.
PollNext(t) ==
    /\ pc[t] = "iter"
    /\ IF Len(requests) # loc[t].it_used
       THEN /\ pc' = [pc EXCEPT ![t] = "done"]
            /\ resp' = [resp EXCEPT ![t] = Answer(500, 0, "RuntimeError", NoData, NoSolution)]
            /\ loc' = [loc EXCEPT ![t] = NoLoc]
       ELSE IF loc[t].it_pos >= Len(requests)
       THEN /\ pc' = [pc EXCEPT ![t] = "done"]
            /\ resp' = [resp EXCEPT ![t] = Answer(204, 0, "none", NoData, NoSolution)]
            /\ loc' = [loc EXCEPT ![t] = NoLoc]
       ELSE /\ pc' = [pc EXCEPT ![t] = "check"]
            /\ loc' = [loc EXCEPT ![t].it_pos = @ + 1,
                                  ![t].req_id = IterItem(loc[t].it_pos + 1).id]
            /\ UNCHANGED resp
    /\ UNCHANGED <<requests, solutions, claimCount, repDone, submitted, calls>>
    /\ UNCHANGED otherThanLedger

IsClaimable_notCompleted(status) == status # "completed"

\* The test of line 54 on the status of an entry.
IsClaimable(status) == status = "pending"

\* Line 54: if req_data['status'] == 'pending'.
PollCheck(t) ==
    /\ pc[t] = "check"
    /\ pc' = [pc EXCEPT ![t] = IF IsClaimable(StatusOf(loc[t].req_id)) THEN "mark" ELSE "iter"]
    /\ UNCHANGED <<requests, solutions, loc, resp,
                   claimCount, repDone, submitted, calls>>
    /\ UNCHANGED otherThanLedger

ClaimStatus_copyOnly == "pending"

\* The status a claim writes into the ledger entry (line 58).
ClaimStatus == "processing"

Truthy_hasCustomers(p) == p.ctype = "list" /\ Len(p.customers) > 0

\* bool(req_data) at line 92: a dictionary is true when it is not empty.
Truthy(p) == p.ctype # "nojson"

\* Lines 56-60 and the answer of poll_request: the status store, then the
\* test of line 92 on the returned pair: the 200 answer with the id and the
\* payload of the entry, or 204.
PollMark(t) ==
    /\ pc[t] = "mark"
    /\ requests' = SetStatus(loc[t].req_id, ClaimStatus)
    /\ IF loc[t].req_id # 0 /\ Truthy(DataOf(loc[t].req_id))
       THEN /\ resp' = [resp EXCEPT ![t] = Answer(200, loc[t].req_id, "none",
                                                  DataOf(loc[t].req_id), NoSolution)]
            /\ claimCount' = [claimCount EXCEPT ![loc[t].req_id] = @ + 1]
       ELSE /\ resp' = [resp EXCEPT ![t] = Answer(204, 0, "none", NoData, NoSolution)]
            /\ UNCHANGED claimCount
    /\ pc' = [pc EXCEPT ![t] = "done"]
    /\ loc' = [loc EXCEPT ![t] = NoLoc]
    /\ UNCHANGED <<solutions, repDone, submitted, calls>>
    /\ UNCHANGED otherThanLedger

\* ------------------------------- POST /api/solve-cvrp?action=response
KnownRequest_any(id) == TRUE

\* add_solution, line 65: request_id in self.requests.
KnownRequest(id) == id \in Keys

\* submit_solution, branch for a solution: body checks (lines 111-118),
\* then add_solution's membership test (line 65).
ReportStart(t, sd) ==
    /\ pc[t] = "idle"
    /\ IF sd = NoSolution
       THEN /\ resp' = [resp EXCEPT ![t] = Answer(400, 0, "No JSON data provided", NoData, NoSolution)]
            /\ pc' = [pc EXCEPT ![t] = "done"]
            /\ UNCHANGED loc
       ELSE IF sd.request_id = 0
       THEN /\ resp' = [resp EXCEPT ![t] = Answer(400, 0, "Missing request_id", NoData, NoSolution)]
            /\ pc' = [pc EXCEPT ![t] = "done"]
            /\ UNCHANGED loc
       ELSE IF ~KnownRequest(sd.request_id)
       THEN /\ resp' = [resp EXCEPT ![t] = Answer(400, 0, "Invalid request_id", NoData, NoSolution)]
            /\ pc' = [pc EXCEPT ![t] = "done"]
            /\ UNCHANGED loc
       ELSE /\ pc' = [pc EXCEPT ![t] = "rep_status"]
            /\ loc' = [loc EXCEPT ![t] = [NoLoc EXCEPT !.req_id = sd.request_id,
                                                        !.solution_data = sd]]
            /\ UNCHANGED resp
    /\ BeginCall
    /\ UNCHANGED <<requests, solutions, claimCount, repDone, submitted>>
    /\ UNCHANGED otherThanLedger

\* Line 66: self.requests[request_id]['status'] = 'completed'.
ReportStatus(t) ==
    /\ pc[t] = "rep_status"
    /\ requests' = SetStatus(loc[t].req_id, "completed")
    /\ pc' = [pc EXCEPT ![t] = "rep_store"]
    /\ UNCHANGED <<solutions, loc, resp, claimCount, repDone, submitted, calls>>
    /\ UNCHANGED otherThanLedger

\* The value add_solution leaves in self.solutions[request_id] (lines 67-70).
StoredSolution(old, new) == new

\* Lines 67-73 and the answer: the store into self.solutions, return True,
\* answered 200.
ReportStore(t) ==
    /\ pc[t] = "rep_store"
    /\ solutions' = [solutions EXCEPT ![loc[t].req_id] =
                        StoredSolution(@, loc[t].solution_data)]
    /\ repDone' = [repDone EXCEPT ![loc[t].req_id] = loc[t].solution_data.route]
    /\ resp' = [resp EXCEPT ![t] = Answer(200, loc[t].req_id, "success", NoData, NoSolution)]
    /\ pc' = [pc EXCEPT ![t] = "done"]
    /\ loc' = [loc EXCEPT ![t] = NoLoc]
    /\ UNCHANGED <<requests, claimCount, submitted, calls>>
    /\ UNCHANGED otherThanLedger

\* ------------------------------------ GET /api/solution/<request_id>
\* get_solution_status, lines 165-166: membership test and the reference
\* to the ledger entry.
QueryStart(t, id) ==
    /\ pc[t] = "idle"
    /\ IF id \in Keys
       THEN /\ pc' = [pc EXCEPT ![t] = "q_sol"]
            /\ loc' = [loc EXCEPT ![t] = [NoLoc EXCEPT !.req_id = id,
                                                        !.snapDone = (repDone[id] # "none")]]
            /\ UNCHANGED resp
       ELSE /\ pc' = [pc EXCEPT ![t] = "done"]
            /\ resp' = [resp EXCEPT ![t] = Answer(404, 0, "Request not found", NoData, NoSolution)]
            /\ UNCHANGED loc
    /\ BeginCall
    /\ UNCHANGED <<requests, solutions, claimCount, repDone, submitted>>
    /\ UNCHANGED otherThanLedger

get_solution_missing(id) == NoSolution

\* CVRPBackendServer.get_solution (lines 75-79).
get_solution(id) == solutions[id]

\* Lines 167-173: if the id has a stored solution, answer completed with it.
QuerySolution(t) ==
    /\ pc[t] = "q_sol"
    /\ IF HasSolution(loc[t].req_id)
       THEN /\ pc' = [pc EXCEPT ![t] = "done"]
            /\ resp' = [resp EXCEPT ![t] = Answer(200, loc[t].req_id, "completed",
                                                  NoData, get_solution(loc[t].req_id))]
            /\ loc' = [loc EXCEPT ![t] = NoLoc]
       ELSE /\ pc' = [pc EXCEPT ![t] = "q_status"]
            /\ UNCHANGED <<resp, loc>>
    /\ UNCHANGED <<requests, solutions, claimCount, repDone, submitted, calls>>
    /\ UNCHANGED otherThanLedger

\* Lines 174-178: otherwise answer the status field of the entry.
QueryStatus(t) ==
    /\ pc[t] = "q_status"
    /\ resp' = [resp EXCEPT ![t] = Answer(200, loc[t].req_id, StatusOf(loc[t].req_id),
                                          NoData, NoSolution)]
    /\ pc' = [pc EXCEPT ![t] = "done"]
    /\ loc' = [loc EXCEPT ![t] = NoLoc]
    /\ UNCHANGED <<requests, solutions, claimCount, repDone, submitted, calls>>
    /\ UNCHANGED otherThanLedger

\* The worker has sent its answer and is free for the next call.  (The
\* locals of a handler die with its last step: loc is NoLoc from then on.)
HandlerReturn(t) ==
    /\ pc[t] = "done"
    /\ pc' = [pc EXCEPT ![t] = "idle"]
    /\ resp' = [resp EXCEPT ![t] = NoResp]
    /\ UNCHANGED <<requests, solutions, loc, claimCount, repDone, submitted, calls>>
    /\ UNCHANGED otherThanLedger

Next ==
    \/ \E t \in Threads, p \in SubmitInputs : SubmitRequest(t, p)
    \/ \E t \in Threads, a \in {"poll", "other"} : PollStart(t, a)
    \/ \E t \in Threads : PollNext(t)
    \/ \E t \in Threads : PollCheck(t)
    \/ \E t \in Threads : PollMark(t)
    \/ \E t \in Threads, sd \in ReportInputs : ReportStart(t, sd)
    \/ \E t \in Threads : ReportStatus(t)
    \/ \E t \in Threads : ReportStore(t)
    \/ \E t \in Threads, id \in Ids : QueryStart(t, id)
    \/ \E t \in Threads : QuerySolution(t)
    \/ \E t \in Threads : QueryStatus(t)
    \/ \E t \in Threads : HandlerReturn(t)

Spec == Init /\ [][Next]_vars

\* =========================================================================
\* The fleet configuration mailbox.
\* =========================================================================

\* The checks of confirm_vehicles (lines 296-307).
confirm_validate(d) ==
    IF d.vtype \in {"nojson", "missing"} THEN "Invalid request - vehicles required"
    ELSE IF d.vtype # "list" \/ Len(d.vehicles) = 0 THEN "At least one vehicle required"
    ELSE IF \E i \in 1..Len(d.vehicles) : ~(VehicleKeys \subseteq d.vehicles[i].keys)
         THEN "Each vehicle must have: name, capacity, maxDistance"
    ELSE "ok"

\* data.get('depot', {'name': 'Depot', 'x': 0.0, 'y': 0.0})
DepotOf(d) == IF d.depot = "absent" THEN "Depot" ELSE d.depot

CfgAnswer(code, vehicles, depot, ts, gen) ==
    [code |-> code, vehicles |-> vehicles, depot |-> depot, timestamp |-> ts, gen |-> gen]

StoredConfig_keepUnconsumed(slot, new) == IF slot = NoConfig THEN new ELSE slot

\* The value lines 310-313 leave in the slot: the new dictionary, whatever
\* the slot held.
StoredConfig(slot, new) == new

\* confirm_vehicles up to line 313: validation, then the store into the slot.
ConfirmStore(t, d) ==
    /\ cpc[t] = "idle"
    /\ BeginCall
    /\ IF confirm_validate(d) = "ok"
       THEN /\ nConfirmed < MaxConfirms
            /\ vehicle_config' = StoredConfig(vehicle_config,
                                               [vehicles |-> d.vehicles, depot |-> DepotOf(d),
                                                gen |-> nConfirmed + 1])
            /\ nConfirmed' = nConfirmed + 1
            /\ cloc' = [cloc EXCEPT ![t] = vehicle_config']
            /\ cpc' = [cpc EXCEPT ![t] = "stamp"]
            /\ UNCHANGED cresp
       ELSE /\ cresp' = [cresp EXCEPT ![t] = CfgAnswer(400, <<>>, "none", 0, 0)]
            /\ cpc' = [cpc EXCEPT ![t] = "done"]
            /\ UNCHANGED <<vehicle_config, nConfirmed, cloc>>
    /\ UNCHANGED <<vehicle_config_timestamp, now, cseen, stampOf, delivered>>
    /\ UNCHANGED otherThanConfig

\* Line 314: server.vehicle_config_timestamp = time.time(), then the 200
\* answer echoing the vehicles.
ConfirmStamp(t) ==
    /\ cpc[t] = "stamp"
    /\ now' = now + 1
    /\ vehicle_config_timestamp' = now'
    /\ stampOf' = [stampOf EXCEPT ![cloc[t].gen] = now']
    /\ cresp' = [cresp EXCEPT ![t] = CfgAnswer(200, cloc[t].vehicles, "none", 0, cloc[t].gen)]
    /\ cloc' = [cloc EXCEPT ![t] = NoConfig]
    /\ cpc' = [cpc EXCEPT ![t] = "done"]
    /\ UNCHANGED <<vehicle_config, nConfirmed, cseen, delivered, calls>>
    /\ UNCHANGED otherThanConfig

\* poll_vehicle_config, lines 332-333: the test of the slot.
PollConfigTest(t) ==
    /\ cpc[t] = "idle"
    /\ BeginCall
    /\ IF vehicle_config = NoConfig
       THEN /\ cresp' = [cresp EXCEPT ![t] = CfgAnswer(204, <<>>, "none", 0, 0)]
            /\ cpc' = [cpc EXCEPT ![t] = "done"]
       ELSE /\ cpc' = [cpc EXCEPT ![t] = "copy"]
            /\ UNCHANGED cresp
    /\ cseen' = [cseen EXCEPT ![t] = nConfirmed]
    /\ UNCHANGED <<vehicle_config, vehicle_config_timestamp, now, cloc, nConfirmed,
                   stampOf, delivered>>
    /\ UNCHANGED otherThanConfig

\* Line 336: config = server.vehicle_config.copy().  When the slot was
\* emptied since the test, None has no copy(): AttributeError, answered 500.
PollConfigCopy(t) ==
    /\ cpc[t] = "copy"
    /\ IF vehicle_config = NoConfig
       THEN /\ cresp' = [cresp EXCEPT ![t] = CfgAnswer(500, <<>>, "none", 0, 0)]
            /\ cpc' = [cpc EXCEPT ![t] = "done"]
            /\ UNCHANGED cloc
       ELSE /\ cloc' = [cloc EXCEPT ![t] = vehicle_config]
            /\ cpc' = [cpc EXCEPT ![t] = "clear"]
            /\ UNCHANGED cresp
    /\ UNCHANGED <<vehicle_config, vehicle_config_timestamp, now, nConfirmed, cseen,
                   stampOf, delivered, calls>>
    /\ UNCHANGED otherThanConfig

\* Line 337: server.vehicle_config = None, whatever the slot holds by now.
PollConfigClear(t) ==
    /\ cpc[t] = "clear"
    /\ vehicle_config' = NoConfig
    /\ cpc' = [cpc EXCEPT ![t] = "answer"]
    /\ UNCHANGED <<vehicle_config_timestamp, now, cloc, cresp, nConfirmed, cseen,
                   stampOf, delivered, calls>>
    /\ UNCHANGED otherThanConfig

\* Lines 339-343: the 200 answer with the copy and the timestamp variable.
PollConfigAnswer(t) ==
    /\ cpc[t] = "answer"
    /\ cresp' = [cresp EXCEPT ![t] = CfgAnswer(200, cloc[t].vehicles, cloc[t].depot,
                                               vehicle_config_timestamp, cloc[t].gen)]
    /\ delivered' = [delivered EXCEPT ![cloc[t].gen] = @ + 1]
    /\ cloc' = [cloc EXCEPT ![t] = NoConfig]
    /\ cpc' = [cpc EXCEPT ![t] = "done"]
    /\ UNCHANGED <<vehicle_config, vehicle_config_timestamp, now, nConfirmed, cseen,
                   stampOf, calls>>
    /\ UNCHANGED otherThanConfig

\* The worker has sent its answer and is free for the next call.
ConfigReturn(t) ==
    /\ cpc[t] = "done"
    /\ cpc' = [cpc EXCEPT ![t] = "idle"]
    /\ cresp' = [cresp EXCEPT ![t] = NoCfgResp]
    /\ UNCHANGED <<vehicle_config, vehicle_config_timestamp, now, cloc, nConfirmed,
                   cseen, stampOf, delivered, calls>>
    /\ UNCHANGED otherThanConfig

NextConfig ==
    \/ \E t \in Threads, d \in ConfirmInputs : ConfirmStore(t, d)
    \/ \E t \in Threads : ConfirmStamp(t)
    \/ \E t \in Threads : PollConfigTest(t)
    \/ \E t \in Threads : PollConfigCopy(t)
    \/ \E t \in Threads : PollConfigClear(t)
    \/ \E t \in Threads : PollConfigAnswer(t)
    \/ \E t \in Threads : ConfigReturn(t)

SpecConfig == Init /\ [][NextConfig]_vars

\* ------------------------------------------------ POST /api/agents/status
AgentKeys == {agent_status[i].name : i \in 1..Len(agent_status)}
AgentIdx(n) == CHOOSE i \in 1..Len(agent_status) : agent_status[i].name = n

update_agent_validate(d) ==
    IF d.body = "nojson" THEN "No JSON data provided"
    ELSE IF d.agent_name = NoName \/ d.agent_type = "" \/ d.status = ""
         THEN "agent_name, agent_type, and status required"
    ELSE "ok"

StoredAgentRecord_mergeInfo(old, new) == [new EXCEPT !.info = old.info \cup new.info]

\* The value lines 361-366 leave under agent_name: the new dictionary,
\* whatever the entry held.
StoredAgentRecord(old, new) == new

AgentAnswer(code, n) == [NoAgentResp EXCEPT !.code = code, !.agent = n]

\* update_agent_status: validation, then the one store.  Storing under a
\* name the dict has keeps the entry's place; a new name goes to the end.
UpdateAgentStatus(t, d) ==
    /\ apc[t] = "idle"
    /\ BeginCall
    /\ apc' = [apc EXCEPT ![t] = "done"]
    /\ IF update_agent_validate(d) # "ok"
       THEN /\ aresp' = [aresp EXCEPT ![t] = AgentAnswer(400, NoName)]
            /\ UNCHANGED <<agent_status, lastUpdate, adirty>>
       ELSE LET n == d.agent_name
                old == IF n \in AgentKeys THEN agent_status[AgentIdx(n)] ELSE NoAgent
                new == [name |-> n, status |-> d.status, type |-> d.agent_type,
                        info |-> d.info]
            IN /\ agent_status' =
                      IF n \in AgentKeys
                      THEN [agent_status EXCEPT ![AgentIdx(n)] = StoredAgentRecord(old, new)]
                      ELSE Append(agent_status, StoredAgentRecord(old, new))
               /\ lastUpdate' = [lastUpdate EXCEPT ![n] =
                                    [type |-> d.agent_type, status |-> d.status,
                                     info |-> d.info]]
               /\ adirty' = [u \in Threads |-> adirty[u] \/ apc[u] = "scan"]
               /\ aresp' = [aresp EXCEPT ![t] = AgentAnswer(200, n)]
    /\ UNCHANGED aloc
    /\ UNCHANGED otherThanAgents

\* ------------------------------------------------- GET /api/agents/status
\* Lines 379-387: the listed record of one entry; info is listed only when
\* it is present and non-empty.
agent_data(e) ==
    [name |-> e.name, type |-> e.type, status |-> e.status,
     has_info |-> e.info # {}, info |-> e.info]

\* Python's order on strings: lexicographic by character code, a proper
\* prefix first.
RECURSIVE StrLess(_, _)
StrLess(a, b) ==
    IF b = <<>> THEN FALSE
    ELSE IF a = <<>> THEN TRUE
    ELSE IF Head(a) # Head(b) THEN Head(a) < Head(b)
    ELSE StrLess(Tail(a), Tail(b))

SortKeyLess_nameOnly(a, b) == StrLess(a.name, b.name)

\* Order of the sort keys (x['type'] != 'mra', x['name']) of line 391:
\* tuples compare by first component, False before True, then by name.
SortKeyLess(a, b) ==
    IF (a.type # "mra") # (b.type # "mra") THEN a.type = "mra"
    ELSE StrLess(a.name, b.name)

RECURSIVE InsertSorted(_, _)
InsertSorted(s, a) ==
    IF s = <<>> THEN <<a>>
    ELSE IF SortKeyLess(a, Head(s)) THEN <<a>> \o s
    ELSE <<Head(s)>> \o InsertSorted(Tail(s), a)

\* agents.sort(key=...): a stable sort by SortKeyLess.
RECURSIVE SortAgents(_)
SortAgents(s) ==
    IF s = <<>> THEN <<>>
    ELSE InsertSorted(SortAgents(SubSeq(s, 1, Len(s) - 1)), s[Len(s)])

CountAgents(agents, types, statuses) ==
    Cardinality({i \in 1..Len(agents) :
                    agents[i].type \in types /\ agents[i].status \in statuses})

\* Lines 393-398: the listing with its three counts.
ListAnswer(agents) ==
    [code |-> 200, agent |-> NoName, agents |-> agents,
     mra_count |-> CountAgents(agents, {"mra"}, {"active"}),
     da_count |-> CountAgents(agents, {"da"}, {"active"}),
     total_active |-> CountAgents(agents, AgentTypes, {"active"})]

\* get_agent_status, line 378: the iterator over agent_status.items() is
\* created.
ListStart(t) ==
    /\ apc[t] = "idle"
    /\ BeginCall
    /\ apc' = [apc EXCEPT ![t] = "scan"]
    /\ aloc' = [aloc EXCEPT ![t] = [agents |-> <<>>, it_used |-> Len(agent_status),
                                    it_pos |-> 0]]
    /\ adirty' = [adirty EXCEPT ![t] = FALSE]
    /\ UNCHANGED <<agent_status, aresp, lastUpdate>>
    /\ UNCHANGED otherThanAgents

\* One advance of the iterator.  A dict whose size changed since the
\* iterator was created raises RuntimeError, which get_agent_status does not
\* catch (500).  An exhausted iterator ends the loop: the list is sorted and
\* answered.  Otherwise the entry is read and its record appended.
ListNext(t) ==
    /\ apc[t] = "scan"
    /\ IF Len(agent_status) # aloc[t].it_used
       THEN /\ apc' = [apc EXCEPT ![t] = "done"]
            /\ aresp' = [aresp EXCEPT ![t] = AgentAnswer(500, NoName)]
            /\ aloc' = [aloc EXCEPT ![t] = NoAgentLoc]
       ELSE IF aloc[t].it_pos = aloc[t].it_used
       THEN /\ apc' = [apc EXCEPT ![t] = "done"]
            /\ aresp' = [aresp EXCEPT ![t] = ListAnswer(SortAgents(aloc[t].agents))]
            /\ aloc' = [aloc EXCEPT ![t] = NoAgentLoc]
       ELSE /\ aloc' = [aloc EXCEPT ![t].it_pos = @ + 1,
                                    ![t].agents =
                                        Append(@, agent_data(agent_status[aloc[t].it_pos + 1]))]
            /\ UNCHANGED <<apc, aresp>>
    /\ UNCHANGED <<agent_status, lastUpdate, adirty, calls>>
    /\ UNCHANGED otherThanAgents

\* The answer is sent; the thread is free for the next call.
AgentReturn(t) ==
    /\ apc[t] = "done"
    /\ apc' = [apc EXCEPT ![t] = "idle"]
    /\ aresp' = [aresp EXCEPT ![t] = NoAgentResp]
    /\ UNCHANGED <<agent_status, aloc, lastUpdate, adirty, calls>>
    /\ UNCHANGED otherThanAgents

NextAgents ==
    \/ \E t \in Threads, d \in AgentInputs : UpdateAgentStatus(t, d)
    \/ \E t \in Threads : ListStart(t)
    \/ \E t \in Threads : ListNext(t)
    \/ \E t \in Threads : AgentReturn(t)

SpecAgents == Init /\ [][NextAgents]_vars

\* ----------------------------------------------- POST /api/movement/update
HasField(d, k) == \E p \in d : p[1] = k

\* data.get(k, dflt)
Get(d, k, dflt) == IF HasField(d, k) THEN (CHOOSE p \in d : p[1] = k)[2] ELSE dflt

update_position_validate(d) ==
    IF d = {} THEN "No JSON data provided"
    ELSE IF Get(d, "vehicle_name", "None") \in {"None", ""} THEN "vehicle_name required"
    ELSE "ok"

\* Lines 268-276: the dictionary built from the body, read at time ts.
position_data(d, ts) ==
    [x |-> Get(d, "x", "0.0"), y |-> Get(d, "y", "0.0"),
     status |-> Get(d, "status", "idle"), route_id |-> Get(d, "route_id", "None"),
     target_x |-> Get(d, "target_x", "None"), target_y |-> Get(d, "target_y", "None"),
     timestamp |-> ts]

StoredPosition_keepFirst(old, new) == IF old = NoPos THEN new ELSE old

\* The value line 278 leaves under vehicle_name: the new dictionary,
\* whatever the entry held.
StoredPosition(old, new) == new

VehAnswer(code, n, pos) == [code |-> code, vehicle |-> n, position |-> pos]

\* update_vehicle_position: validation, then the one store.
UpdatePosition(t, d) ==
    /\ vpc[t] = "idle"
    /\ BeginCall
    /\ vpc' = [vpc EXCEPT ![t] = "done"]
    /\ IF update_position_validate(d) # "ok"
       THEN /\ vresp' = [vresp EXCEPT ![t] = VehAnswer(400, "none", NoPos)]
            /\ UNCHANGED <<vehicle_positions, vnow, lastPos>>
       ELSE LET n == Get(d, "vehicle_name", "None")
            IN /\ vnow' = vnow + 1
               /\ vehicle_positions' =
                      [vehicle_positions EXCEPT
                          ![n] = StoredPosition(@, position_data(d, vnow + 1))]
               /\ lastPos' = [lastPos EXCEPT ![n] = position_data(d, vnow + 1)]
               /\ vresp' = [vresp EXCEPT ![t] = VehAnswer(200, n, NoPos)]
    /\ UNCHANGED vloc
    /\ UNCHANGED otherThanVehicles

\* ------------------------------------------ GET /api/movement/<vehicle_name>
\* get_vehicle_position, line 403: the membership test.
PositionTest(t, n) ==
    /\ vpc[t] = "idle"
    /\ BeginCall
    /\ vloc' = [vloc EXCEPT ![t] = n]
    /\ IF vehicle_positions[n] # NoPos
       THEN /\ vpc' = [vpc EXCEPT ![t] = "read"]
            /\ UNCHANGED vresp
       ELSE /\ vpc' = [vpc EXCEPT ![t] = "done"]
            /\ vresp' = [vresp EXCEPT ![t] = VehAnswer(404, "none", NoPos)]
    /\ UNCHANGED <<vehicle_positions, vnow, lastPos>>
    /\ UNCHANGED otherThanVehicles

\* Line 406: the entry is read and answered.
PositionRead(t) ==
    /\ vpc[t] = "read"
    /\ vpc' = [vpc EXCEPT ![t] = "done"]
    /\ vresp' = [vresp EXCEPT ![t] = VehAnswer(200, vloc[t], vehicle_positions[vloc[t]])]
    /\ UNCHANGED <<vehicle_positions, vnow, vloc, lastPos, calls>>
    /\ UNCHANGED otherThanVehicles

\* The answer is sent; the thread is free for the next call.
VehicleReturn(t) ==
    /\ vpc[t] = "done"
    /\ vpc' = [vpc EXCEPT ![t] = "idle"]
    /\ vloc' = [vloc EXCEPT ![t] = "none"]
    /\ vresp' = [vresp EXCEPT ![t] = NoVehResp]
    /\ UNCHANGED <<vehicle_positions, vnow, lastPos, calls>>
    /\ UNCHANGED otherThanVehicles

NextVehicles ==
    \/ \E t \in Threads, d \in VehicleInputs : UpdatePosition(t, d)
    \/ \E t \in Threads, n \in VehicleNames : PositionTest(t, n)
    \/ \E t \in Threads : PositionRead(t)
    \/ \E t \in Threads : VehicleReturn(t)

SpecVehicles == Init /\ [][NextVehicles]_vars

\* --------------------------------------------------------------- frontends
\* The except clauses of the frontends, by the class they name.
IsConnectionError(o) == o.exc \in {"ConnectionError", "ConnectTimeout"}
IsRequestException(o) == o.exc \in BackendExceptions

FrontAnswer(op, code, success, o) ==
    [op |-> op, code |-> code, success |-> success, backend |-> o]

\* src/frontend/app.py, set_vehicles: the body is validated, the vehicles
\* are stored in the session, the backend is told; a RequestException of
\* that call is printed and the handler goes on to its success answer.
set_vehicles(b, o) ==
    /\ IF b.kind = "nojson"
       THEN /\ fresp' = FrontAnswer("set_vehicles", 400, FALSE, NotCalled)
            /\ UNCHANGED session_vehicles
       ELSE IF ~b.full
       THEN /\ fresp' = FrontAnswer("set_vehicles", 400, FALSE, NotCalled)
            /\ UNCHANGED session_vehicles
       ELSE /\ session_vehicles' = b.names
            /\ fresp' = FrontAnswer("set_vehicles", 200, TRUE, o)
    /\ UNCHANGED otherThanFront

\* src/frontend/app.py, submit_request: any RequestException is answered
\* 503; 202 of the backend becomes a success answer, any other code is
\* passed on.
submit_request(hasCustomers, o) ==
    /\ IF ~hasCustomers
       THEN fresp' = FrontAnswer("submit_request", 400, FALSE, NotCalled)
       ELSE IF session_vehicles = NoSession \/ session_vehicles = {}
       THEN fresp' = FrontAnswer("submit_request", 400, FALSE, NotCalled)
       ELSE IF IsRequestException(o)
       THEN fresp' = FrontAnswer("submit_request", 503, FALSE, o)
       ELSE IF o.code = 202
       THEN fresp' = FrontAnswer("submit_request", 200, TRUE, o)
       ELSE fresp' = FrontAnswer("submit_request", o.code, FALSE, o)
    /\ UNCHANGED session_vehicles
    /\ UNCHANGED otherThanFront

\* src/frontend/app.py, the proxies get_solution, get_agent_status,
\* get_logs, get_agent_log and get_movement: the backend's answer is passed
\* on with its code, any RequestException is answered 503.
ProxyOps == {"get_solution", "get_agent_status", "get_logs", "get_agent_log", "get_movement"}
proxy(op, o) ==
    /\ IF IsRequestException(o)
       THEN fresp' = FrontAnswer(op, 503, FALSE, o)
       ELSE fresp' = FrontAnswer(op, o.code, o.code = 200, o)
    /\ UNCHANGED session_vehicles
    /\ UNCHANGED otherThanFront

\* src/frontend 2/app.py, submit_request and get_solution: the code the
\* handler expects (202, 200) is a success, any other code is passed on;
\* ConnectionError is answered 503, any other exception 500.
Proxy2Ops == {"submit_request_2", "get_solution_2"}
Expected2(op) == IF op = "submit_request_2" THEN 202 ELSE 200
proxy2(op, o) ==
    /\ IF IsConnectionError(o)
       THEN fresp' = FrontAnswer(op, 503, FALSE, o)
       ELSE IF o.exc # "none"
       THEN fresp' = FrontAnswer(op, 500, FALSE, o)
       ELSE fresp' = FrontAnswer(op, o.code, o.code = Expected2(op), o)
    /\ UNCHANGED session_vehicles
    /\ UNCHANGED otherThanFront

NextFront ==
    \/ \E b \in VehiclesBodies, o \in BackendOutcomes : set_vehicles(b, o)
    \/ \E h \in BOOLEAN, o \in BackendOutcomes : submit_request(h, o)
    \/ \E op \in ProxyOps, o \in BackendOutcomes : proxy(op, o)
    \/ \E op \in Proxy2Ops, o \in BackendOutcomes : proxy2(op, o)

SpecFront == Init /\ [][NextFront]_vars

\* ---------------------------------------------------------------- the logs
TotalLines == Len(log_files["MRA"].lines) + Len(log_files["DA-1"].lines)

\* The run's log folder is created.
MakeLogDir ==
    /\ ~log_dir
    /\ log_dir' = TRUE
    /\ UNCHANGED <<log_files, out, kept>>
    /\ UNCHANGED otherThanLogs

\* An agent starts: its log file is created, empty.
CreateLog(a) ==
    /\ log_dir
    /\ ~log_files[a].exists
    /\ log_files' = [log_files EXCEPT ![a] = [exists |-> TRUE, lines |-> <<>>]]
    /\ UNCHANGED <<log_dir, out, kept>>
    /\ UNCHANGED otherThanLogs

\* An agent appends a line to its log.
AppendLog(a, line) ==
    /\ log_files[a].exists
    /\ TotalLines < MaxLines
    /\ log_files' = [log_files EXCEPT ![a].lines = Append(@, line)]
    /\ UNCHANGED <<log_dir, out, kept>>
    /\ UNCHANGED otherThanLogs

\* ------------------------------ src/frontend 2/app.py: get_agent_logs
\* re.match(r'\[([^\]]+)\]\s*(.+)', line): a leading bracketed timestamp
\* followed by at least one more character.
EntryMatch(line) == Len(line) >= 2 /\ line[1].k = "t"

FreshEntries_kept(last) == last.entries

\* entries = [] (line 65), whatever the last call answered.
FreshEntries(last) == <<>>

\* Lines 68-85, from line i of the file on: blank lines are skipped, a
\* matching line starts an entry, any other line is added to the message
\* of the last entry, when there is one.  The message is kept as the
\* sequence of the lines joined by '\n'.  (The entry's 'level', computed
\* from the first line's message alone, is left out.)
RECURSIVE ScanEntries(_, _, _)
ScanEntries(lines, i, entries) ==
    IF i > Len(lines) THEN entries
    ELSE LET line == lines[i]
         IN IF line = <<>> THEN ScanEntries(lines, i + 1, entries)
            ELSE IF EntryMatch(line)
            THEN ScanEntries(lines, i + 1,
                             Append(entries, [timestamp |-> line[1].s,
                                              message |-> <<Tail(line)>>]))
            ELSE IF entries # <<>>
            THEN ScanEntries(lines, i + 1,
                             [entries EXCEPT ![Len(entries)].message = Append(@, line)])
            ELSE ScanEntries(lines, i + 1, entries)

\* The files a view read: those of the agents in as, as they are now.
\* History: the answer a call replaces is remembered, or the one
\* remembered before it stays.
Remember == kept' \in {kept, out}

ReadOf(as) == [a \in LogAgents |-> IF a \in as THEN log_files[a] ELSE NoFile]

\* get_agent_logs(folder_name, agent_name).
get_agent_logs(a) ==
    /\ out' = IF ~(log_dir /\ log_files[a].exists)
              THEN [NoOut EXCEPT !.view = "entries", !.agent = a, !.dir = log_dir, !.read = ReadOf({a}),
                                 !.error = "Log file not found"]
              ELSE [NoOut EXCEPT !.view = "entries", !.agent = a, !.dir = log_dir, !.read = ReadOf({a}),
                                 !.entries = ScanEntries(log_files[a].lines, 1,
                                                         FreshEntries(out))]
    /\ Remember
    /\ UNCHANGED <<log_dir, log_files>>
    /\ UNCHANGED otherThanLogs

\* ---------------------------- src/frontend 2/app.py: get_da_movements
\* 'phrase' in line: the tokens of the phrase stand in the line, in a row.
PhraseAt(line, ph, i) ==
    /\ i + Len(ph) - 1 <= Len(line)
    /\ \A j \in 1..Len(ph) : line[i + j - 1] = ph[j]
HasPhrase(line, ph) == \E i \in 1..Len(line) : PhraseAt(line, ph, i)

\* line.lower(), for the capitalised words the logs use.
LowerStr(w) ==
    CASE w = "Queue" -> "queue"
      [] w = "Route" -> "route"
      [] w = "Processing" -> "processing"
      [] w = "Remaining" -> "remaining"
      [] w = "Moving" -> "moving"
      [] w = "ARRIVED" -> "arrived"
      [] w = "RETURNED" -> "returned"
      [] w = "ACCEPTED" -> "accepted"
      [] OTHER -> w
Lower(line) == [i \in 1..Len(line) |-> [line[i] EXCEPT !.s = LowerStr(@)]]

\* re.search(phrase + r'\s*(...)', line).group(1): the token after the
\* first place where the phrase is followed by a token of one of the
\* kinds; NoneTok when there is no such place.
Capture(line, ph, kinds) ==
    LET at == {i \in 1..Len(line) :
                  /\ PhraseAt(line, ph, i)
                  /\ i + Len(ph) <= Len(line)
                  /\ line[i + Len(ph)].k \in kinds}
    IN IF at = {} THEN NoneTok
       ELSE line[(CHOOSE i \in at : \A j \in at : i <= j) + Len(ph)]
AnyToken == {"w", "n", "p", "t"}

\* [0-9.]+ : a non-empty string of digits and dots.
Digits == {"0", "1", "2", "3", "4", "5", "6", "7", "8", "9"}
IsNumberText(cs) == cs # <<>> /\ \A i \in 1..Len(cs) : cs[i] \in Digits \cup {"."}

\* float(text) of such a string raises ValueError unless it has at most
\* one dot and at least one digit.
IsFloat(cs) ==
    /\ IsNumberText(cs)
    /\ Cardinality({i \in 1..Len(cs) : cs[i] = "."}) <= 1
    /\ \E i \in 1..Len(cs) : cs[i] \in Digits

RECURSIVE DropLeadingZeros(_)
DropLeadingZeros(cs) ==
    IF cs # <<>> /\ Head(cs) = "0" THEN DropLeadingZeros(Tail(cs)) ELSE cs
RECURSIVE DropTrailingZeros(_)
DropTrailingZeros(cs) ==
    IF cs # <<>> /\ cs[Len(cs)] = "0" THEN DropTrailingZeros(SubSeq(cs, 1, Len(cs) - 1)) ELSE cs

\* The value of float(text): the digits before and after the dot, without
\* the zeros that do not count.
FloatOf(cs) ==
    LET dots == {i \in 1..Len(cs) : cs[i] = "."}
        d == IF dots = {} THEN Len(cs) + 1 ELSE CHOOSE i \in dots : TRUE
    IN [int |-> DropLeadingZeros(SubSeq(cs, 1, d - 1)),
        frac |-> DropTrailingZeros(SubSeq(cs, d + 1, Len(cs)))]

\* re.search(r'\(([0-9.]+),\s*([0-9.]+)\)', line): the first pair whose
\* two parts are number texts; NoneTok when there is none.
PosMatch(line) ==
    LET at == {i \in 1..Len(line) :
                  line[i].k = "p" /\ IsNumberText(line[i].x) /\ IsNumberText(line[i].y)}
    IN IF at = {} THEN NoneTok ELSE line[CHOOSE i \in at : \A j \in at : i <= j]

\* Line 201-202: one of the position keywords stands in the line.
HasPositionKeyword(line) ==
    \/ HasPhrase(line, Ws(<<"ARRIVED", "at", "customer">>))
    \/ HasPhrase(line, Ws(<<"RETURNED", "to", "depot">>))
    \/ HasPhrase(line, Ws(<<"Moving", "to">>))
    \/ HasPhrase(line, Ws(<<"Starting", "route">>))
    \/ \E i \in 1..Len(line) - 1 : line[i] = W("at") /\ line[i + 1].k = "p"
    \/ HasPhrase(line, Ws(<<"Position">>))

\* re.match(r'\[([^\]]+)\]', line): the timestamp the line begins with,
\* None when it begins with none.
TimestampOf(line) == IF line # <<>> /\ line[1].k = "t" THEN line[1].s ELSE "None"

\* Lines 210-222: the kind of the movement and, for an arrival, the word
\* after 'customer' (case ignored).
EventOf_depotFirst(line) ==
    IF HasPhrase(line, Ws(<<"RETURNED", "to", "depot">>)) THEN "depot"
    ELSE IF HasPhrase(line, Ws(<<"ARRIVED", "at", "customer">>)) THEN "arrival"
    ELSE IF HasPhrase(line, Ws(<<"Starting", "route">>)) THEN "route_start"
    ELSE "moving"
EventOf(line) ==
    IF HasPhrase(line, Ws(<<"ARRIVED", "at", "customer">>)) THEN "arrival"
    ELSE IF HasPhrase(line, Ws(<<"RETURNED", "to", "depot">>)) THEN "depot"
    ELSE IF HasPhrase(line, Ws(<<"Starting", "route">>)) THEN "route_start"
    ELSE "moving"
CustomerOf(line) ==
    IF HasPhrase(line, Ws(<<"ARRIVED", "at", "customer">>))
    THEN Capture(Lower(line), Ws(<<"customer">>), {"w", "n", "t"})
    ELSE NoneTok

\* The locals of one pass over a log: positions, route_info, queue_size,
\* current_route (lines 164-167), and whether an exception ended the pass.
FreshScan == [positions |-> <<>>, route_info |-> <<>>, queue_size |-> 0,
              current_route |-> NoneTok, raised |-> FALSE]

\* Lines 176-187: the queue markers of a line.
QueuePart_accumulated(line, st) ==
    LET added == Capture(line, Ws(<<"Queue", "size", ":">>), {"n"})
        st1 == IF HasPhrase(Lower(line), Ws(<<"added", "to", "queue">>)) /\ added # NoneTok
               THEN [st EXCEPT !.queue_size = @ + added.n] ELSE st
        claimed == HasPhrase(line, Ws(<<"Processing", "route", "from", "queue">>))
        route == Capture(line, Ws(<<"route", "from", "queue", ":">>), AnyToken)
        st2 == IF claimed /\ route # NoneTok
               THEN [st1 EXCEPT !.current_route = route] ELSE st1
        remaining == Capture(line, Ws(<<"Remaining", "routes", "in", "queue", ":">>), {"n"})
    IN IF claimed /\ remaining # NoneTok
       THEN [st2 EXCEPT !.queue_size = @ + remaining.n] ELSE st2
QueuePart(line, st) ==
    LET added == Capture(line, Ws(<<"Queue", "size", ":">>), {"n"})
        st1 == IF HasPhrase(Lower(line), Ws(<<"added", "to", "queue">>)) /\ added # NoneTok
               THEN [st EXCEPT !.queue_size = added.n] ELSE st
        claimed == HasPhrase(line, Ws(<<"Processing", "route", "from", "queue">>))
        route == Capture(line, Ws(<<"route", "from", "queue", ":">>), AnyToken)
        st2 == IF claimed /\ route # NoneTok
               THEN [st1 EXCEPT !.current_route = route] ELSE st1
        remaining == Capture(line, Ws(<<"Remaining", "routes", "in", "queue", ":">>), {"n"})
    IN IF claimed /\ remaining # NoneTok
       THEN [st2 EXCEPT !.queue_size = remaining.n] ELSE st2

\* Lines 190-198: the route assignment of a line.
RoutePart(line, st) ==
    LET id == Capture(line, Ws(<<"Route">>), AnyToken)
    IN IF /\ \/ HasPhrase(line, Ws(<<"ROUTE_ASSIGNMENT">>))
             \/ HasPhrase(line, Ws(<<"Route">>)) /\ HasPhrase(line, Ws(<<"ACCEPTED">>))
          /\ id # NoneTok
       THEN [st EXCEPT !.route_info =
                Append(@, [route_id |-> id,
                           status |-> IF HasPhrase(Lower(line), Ws(<<"added", "to", "queue">>))
                                      THEN "queued" ELSE "executing",
                           timestamp |-> TimestampOf(line)])]
       ELSE st

\* Lines 201-230: the position of a line.  A keyword without a matching
\* pair yields nothing; a matching pair that float() rejects raises.
PositionPart(line, st) ==
    LET m == PosMatch(line)
    IN IF ~HasPositionKeyword(line) \/ m = NoneTok THEN st
       ELSE IF ~(IsFloat(m.x) /\ IsFloat(m.y)) THEN [st EXCEPT !.raised = TRUE]
       ELSE [st EXCEPT !.positions =
                Append(@, [timestamp |-> TimestampOf(line),
                           x |-> FloatOf(m.x), y |-> FloatOf(m.y),
                           event |-> EventOf(line), customer |-> CustomerOf(line)])]

\* Lines 169-232: the pass over the lines from line i on.  The try block
\* encloses the whole loop: an exception ends the pass, and the handler
\* goes on with what the locals hold by then.
RECURSIVE ScanMovements(_, _, _)
ScanMovements(lines, i, st) ==
    IF i > Len(lines) \/ st.raised THEN st
    ELSE ScanMovements(lines, i + 1,
                       PositionPart(lines[i], RoutePart(lines[i], QueuePart(lines[i], st))))

\* The DA-*_conversations.log files of the folder.
DAFiles == {a \in LogAgents : a # "MRA" /\ log_files[a].exists}

\* get_da_movements(folder_name), for the folder's one dispatcher.
get_da_movements ==
    /\ out' = IF ~log_dir \/ DAFiles = {}
              THEN [NoOut EXCEPT !.view = "movements", !.dir = log_dir, !.read = ReadOf(DAFiles)]
              ELSE LET a == CHOOSE a \in DAFiles : TRUE
                       st == ScanMovements(log_files[a].lines, 1, FreshScan)
                   IN [NoOut EXCEPT !.view = "movements", !.agent = a,
                                    !.dir = log_dir, !.read = ReadOf(DAFiles),
                                    !.movements = st.positions,
                                    !.routes = st.route_info,
                                    !.queue_status = [present |-> TRUE,
                                                      queue_size |-> st.queue_size,
                                                      current_route |-> st.current_route]]
    /\ Remember
    /\ UNCHANGED <<log_dir, log_files>>
    /\ UNCHANGED otherThanLogs

\* ---------------------------- src/frontend 2/app.py: get_system_state
\* f.read(): the lines of the file in one text, a line break after each.
NL == [k |-> "nl", s |-> "", n |-> 0, x |-> <<>>, y |-> <<>>]
RECURSIVE Content(_)
Content(lines) ==
    IF lines = <<>> THEN <<>> ELSE Head(lines) \o <<NL>> \o Content(Tail(lines))

\* The first token at or after place i that is not a line break (\s*
\* runs over line breaks too); 0 when there is none.
NextToken(content, i) ==
    LET at == {j \in i..Len(content) : content[j].k # "nl"}
    IN IF at = {} THEN 0 ELSE CHOOSE j \in at : \A l \in at : j <= l

\* The places of the text where phrase + r'\s*(...)' matches.
Matches(content, ph, kinds) ==
    {i \in 1..Len(content) :
        /\ PhraseAt(content, ph, i)
        /\ NextToken(content, i + Len(ph)) # 0
        /\ content[NextToken(content, i + Len(ph))].k \in kinds}
Captured(content, ph, i) == content[NextToken(content, i + Len(ph))]

\* re.search(...): the first match of the text.
FirstOf(is) == CHOOSE i \in is : \A j \in is : i <= j
Search(content, ph, kinds) ==
    LET ms == Matches(content, ph, kinds)
    IN IF ms = {} THEN NoneTok ELSE Captured(content, ph, FirstOf(ms))

\* len(re.findall(phrase, content)).
CountPhrase(content, ph) == Cardinality({i \in 1..Len(content) : PhraseAt(content, ph, i)})

\* 'word' in content.
InContent(content, ph) == \E i \in 1..Len(content) : PhraseAt(content, ph, i)

\* The matches of r'Processing.*route from queue:\s*([^\s]+)' that start
\* at place i: 'Processing' at i and the phrase at a place further on in
\* the same line, a token after it.
ClaimPhrase == Ws(<<"route", "from", "queue", ":">>)
ClaimEnds(content, i) ==
    IF content[i] # W("Processing") THEN {}
    ELSE {j \in (i + 1)..Len(content) :
             /\ \A l \in i..j : content[l].k # "nl"
             /\ PhraseAt(content, ClaimPhrase, j)
             /\ NextToken(content, j + Len(ClaimPhrase)) # 0}
ClaimStarts(content) == {i \in 1..Len(content) : ClaimEnds(content, i) # {}}
LastOf(is) == CHOOSE i \in is : \A j \in is : j <= i
\* re.search: the first place to start from, and from there the longest .*
ClaimSearch(content) ==
    LET starts == ClaimStarts(content)
    IN IF starts = {} THEN NoneTok
       ELSE Captured(content, ClaimPhrase, LastOf(ClaimEnds(content, FirstOf(starts))))

\* len(re.findall(r'RETURNED to depot.*Route.*completed', content)): the
\* lines where the three stand in this order.
Completed(line) ==
    \E i \in 1..Len(line) :
        /\ PhraseAt(line, Ws(<<"RETURNED", "to", "depot">>), i)
        /\ \E j \in (i + 3)..Len(line) :
              /\ line[j] = W("Route")
              /\ \E l \in (j + 1)..Len(line) : line[l] = W("completed")
CountCompleted(lines) == Cardinality({i \in 1..Len(lines) : Completed(lines[i])})

\* Lines 341-359: the state of the MRA from its log.
MraState(content) ==
    LET unserved == Search(content, Ws(<<"Unserved", "customers", ":">>), {"n"})
    IN [status |-> IF InContent(content, Ws(<<"Solution", "found">>)) THEN "solved"
                   ELSE IF InContent(content, Ws(<<"Solving">>)) THEN "solving"
                   ELSE "unknown",
        vehicles_queried |-> CountPhrase(content, Ws(<<"Querying", "DA", ":">>)),
        routes_assigned |-> CountPhrase(content, Ws(<<"Assigning", "route">>)),
        unserved_customers |-> IF unserved = NoneTok THEN 0 ELSE unserved.n]

\* Lines 368-398: the state of a dispatcher from its log.
DaStatus(claimed, queue_size) ==
    IF claimed THEN "executing" ELSE IF queue_size > 0 THEN "queued" ELSE "idle"
DaState(lines, content) ==
    LET queue == Search(content, Ws(<<"Queue", "size", ":">>), {"n"})
        queue_size == IF queue = NoneTok THEN 0 ELSE queue.n
        route == ClaimSearch(content)
    IN [present |-> TRUE,
        status |-> DaStatus(route # NoneTok, queue_size),
        queue_size |-> queue_size,
        current_route |-> route,
        routes_completed |-> CountCompleted(lines)]

\* get_system_state(folder_name).
Existing == {a \in LogAgents : log_files[a].exists}
get_system_state ==
    /\ \E mra \in {Content(log_files["MRA"].lines)},
          da \in {Content(log_files["DA-1"].lines)} :
          out' = IF ~log_dir
                 THEN [NoOut EXCEPT !.view = "state", !.dir = log_dir, !.read = ReadOf(Existing)]
                 ELSE [NoOut EXCEPT
                         !.view = "state", !.dir = log_dir, !.read = ReadOf(Existing),
                         !.state = [present |-> TRUE,
                                    mra |-> IF log_files["MRA"].exists
                                            THEN MraState(mra) ELSE DefaultMra,
                                    da |-> IF DAFiles = {} THEN DefaultDa
                                           ELSE DaState(log_files["DA-1"].lines, da)]]
    /\ Remember
    /\ UNCHANGED <<log_dir, log_files>>
    /\ UNCHANGED otherThanLogs

\* ----------------------- src/frontend 2/app.py: get_agent_communication
\* Lines 269-306: what one line of the MRA log adds to the communications.
\* A SENT or RECEIVED marker fills a record that is never appended and
\* ends the work on the line.
CommOf(line) ==
    IF \/ HasPhrase(line, Ws(<<">>>", "SENT", "MESSAGE">>))
       \/ HasPhrase(line, Ws(<<"<<<", "RECEIVED", "MESSAGE">>))
    THEN <<>>
    ELSE (IF \/ HasPhrase(line, Ws(<<"QUERY_VEHICLE_INFO">>))
             \/ HasPhrase(line, Ws(<<"Vehicle", "info", "query">>))
          THEN <<[type |-> "query",
                  message |-> Ws(<<"MRA", "queries", "DA", "for", "vehicle", "info">>),
                  timestamp |-> TimestampOf(line)]>>
          ELSE <<>>)
      \o (IF \/ HasPhrase(line, Ws(<<"Route", "assignment">>))
             \/ HasPhrase(line, Ws(<<"ROUTE_ASSIGNMENT">>))
          THEN <<[type |-> "route_assignment",
                  message |-> Ws(<<"MRA", "assigns", "route", "to", "DA">>),
                  timestamp |-> TimestampOf(line)]>>
          ELSE <<>>)
      \o (IF \/ HasPhrase(line, Ws(<<"ROUTE_ACCEPTED">>))
             \/ HasPhrase(line, Ws(<<"ROUTE_REJECTED">>))
          THEN <<[type |-> "route_response", message |-> line,
                  timestamp |-> TimestampOf(line)]>>
          ELSE <<>>)

\* Lines 264-308: the pass over the lines of the MRA log; blank lines are
\* skipped.
RECURSIVE ScanCommunication(_, _, _)
ScanCommunication(lines, i, communications) ==
    IF i > Len(lines) THEN communications
    ELSE ScanCommunication(lines, i + 1,
                           IF lines[i] = <<>> THEN communications
                           ELSE communications \o CommOf(lines[i]))

\* get_agent_communication(folder_name).
get_agent_communication ==
    /\ out' = IF ~log_dir \/ ~log_files["MRA"].exists
              THEN [NoOut EXCEPT !.view = "communication", !.dir = log_dir, !.read = ReadOf({"MRA"})]
              ELSE [NoOut EXCEPT !.view = "communication", !.dir = log_dir, !.read = ReadOf({"MRA"}),
                                 !.communications =
                                    ScanCommunication(log_files["MRA"].lines, 1, <<>>)]
    /\ Remember
    /\ UNCHANGED <<log_dir, log_files>>
    /\ UNCHANGED otherThanLogs

NextLogs ==
    \/ MakeLogDir
    \/ \E a \in LogAgents : CreateLog(a)
    \/ \E a \in LogAgents : \E line \in LinesOf(a) : AppendLog(a, line)
    \/ \E a \in LogAgents : get_agent_logs(a)
    \/ get_da_movements
    \/ get_system_state
    \/ get_agent_communication

SpecLogs == Init /\ [][NextLogs]_vars

\* ------------------------------------------------------------- properties
\* ------------------- backend_server.py: list_available_logs, get_agent_log
\* f"{X}_conversations.log"
ConversationsLog(x) == x \o <<"_conversations", ".log">>

\* log_file.stem.replace("_conversations", "")
FullName(file) ==
    SelectSeq(SubSeq(file, 1, Len(file) - 1), LAMBDA c : c # "_conversations")

\* str.startswith and str.lower
StartsWith(str, prefix) ==
    Len(prefix) <= Len(str) /\ SubSeq(str, 1, Len(prefix)) = prefix
LowerChar(c) ==
    CASE c = "M" -> "m" [] c = "R" -> "r" [] c = "A" -> "a" [] c = "D" -> "d"
      [] c = "G" -> "g" [] c = "U" -> "u" [] c = "I" -> "i" [] OTHER -> c
LowerName(str) == [i \in 1..Len(str) |-> LowerChar(str[i])]
DAPrefix == <<"D", "A", "-">>

\* Lines 424-435: the name list_available_logs publishes for a file.
PublishedName(file) ==
    IF FullName(file) = <<"M", "R", "A">> THEN <<"m", "r", "a">>
    ELSE IF StartsWith(FullName(file), DAPrefix)
    THEN SubSeq(FullName(file), 4, Len(FullName(file)))
    ELSE FullName(file)

\* Lines 213-225: the file get_agent_log looks for.
log_file_name(agent_name) ==
    IF LowerName(agent_name) = <<"m", "r", "a">> THEN ConversationsLog(<<"M", "R", "A">>)
    ELSE IF StartsWith(agent_name, DAPrefix) THEN ConversationsLog(agent_name)
    ELSE ConversationsLog(DAPrefix \o agent_name)

\* An agent starts and creates its log file.
CreateLogFile(x) ==
    /\ ConversationsLog(x) \notin logs_base_dir
    /\ logs_base_dir' = logs_base_dir \cup {ConversationsLog(x)}
    /\ UNCHANGED <<listing, lookup>>
    /\ UNCHANGED otherThanNames

\* list_available_logs(): one agent per file matching *_conversations.log
\* (every file of the folder does), and the route manager once more when
\* its file exists and no agent is named mra.  mkdir(exist_ok=True) leaves
\* the folder in place.
list_available_logs ==
    /\ LET agents == {[name |-> PublishedName(f), log_file |-> f,
                       endpoint |-> <<"/log/">> \o PublishedName(f)] : f \in logs_base_dir}
       IN listing' =
             IF /\ <<"m", "r", "a">> \notin {a.name : a \in agents}
                /\ ConversationsLog(<<"M", "R", "A">>) \in logs_base_dir
             THEN agents \cup {[name |-> <<"m", "r", "a">>,
                                log_file |-> ConversationsLog(<<"M", "R", "A">>),
                                endpoint |-> <<"/log/", "m", "r", "a">>]}
             ELSE agents
    /\ UNCHANGED <<logs_base_dir, lookup>>
    /\ UNCHANGED otherThanNames

\* get_agent_log(agent_name), called on the endpoint published for an agent
\* of the listing.
get_agent_log(a) ==
    /\ LET agent_name == Tail(a.endpoint)
           searched == log_file_name(agent_name)
       IN lookup' =
             IF agent_name = <<>>
             THEN [NoLookup EXCEPT !.published = a.log_file, !.code = 400]
             ELSE IF searched \notin logs_base_dir
             THEN [NoLookup EXCEPT !.agent_name = agent_name, !.published = a.log_file,
                                   !.searched_file = searched, !.code = 404]
             ELSE [NoLookup EXCEPT !.agent_name = agent_name, !.published = a.log_file,
                                   !.searched_file = searched, !.code = 200,
                                   !.log_file = searched]
    /\ UNCHANGED <<logs_base_dir, listing>>
    /\ UNCHANGED otherThanNames

NextNames ==
    \/ \E x \in LogStems : CreateLogFile(x)
    \/ list_available_logs
    \/ \E a \in listing : get_agent_log(a)

SpecNames == Init /\ [][NextNames]_vars

TypeOK ==
    /\ Len(requests) <= MaxReq
    /\ \A i \in 1..Len(requests) : requests[i].status \in {"pending", "processing", "completed"}
    /\ \A t \in Threads : pc[t] \in {"idle", "iter", "check", "mark", "rep_status",
                                     "rep_store", "q_sol", "q_status", "done"}

\* A report for id has entered add_solution and not yet returned.
ReportInFlight(id) ==
    \E u \in Threads : pc[u] \in {"rep_status", "rep_store"} /\ loc[u].req_id = id

\* Thread t takes the step in which get_pending_request selects an entry
\* (the status test of line 54 succeeds).
PollSelects(t) == pc[t] = "check" /\ pc'[t] = "mark"

\* Thread t takes the step in which poll_request answers with a request.
PollReturns(t) == pc[t] = "mark" /\ pc'[t] = "done"

\* Thread t takes the step in which get_solution_status answers for a known id.
QueryAnswers(t) == pc[t] \in {"q_sol", "q_status"} /\ pc'[t] = "done"

\* C1: no request is handed to two poll-for-work callers: the ids returned
\* by the polls of a run are pairwise distinct.
C1_NoDoubleClaim == \A id \in Ids : claimCount[id] <= 1

\* C3: ReportSolution is first-writer-wins: a report answers success and a
\* solution, once stored for an id, is never replaced by a later report.
C3_FirstWriterWins ==
    [][\A id \in Ids : HasSolution(id) => solutions'[id] = solutions[id]]_vars

\* C4: a request's status never reverses: Completed stays Completed, and
\* Processing never goes back to Pending.
C4_NoReversal ==
    [][\A i \in 1..Len(requests) :
          /\ requests[i].status = "completed" => requests'[i].status = "completed"
          /\ requests[i].status = "processing" => requests'[i].status # "pending"]_vars

\* C5: a request becomes Completed only from Processing: no step moves a
\* Pending request directly to Completed.
C5_NoSkippedStep ==
    [][\A i \in 1..Len(requests) :
          (requests[i].status # "completed" /\ requests'[i].status = "completed")
              => requests[i].status = "processing"]_vars

\* C6: lifecycle round trip.  A status query for a submitted id answers
\* Pending while no poll has returned the id and no report was begun for it,
\* Processing once a poll has returned it and no report was begun, and
\* Completed with exactly the solution of the last finished report when a
\* report for the id had finished before the query started.
C6_RoundTrip ==
    [][\A t \in Threads : QueryAnswers(t) =>
          LET id == loc[t].req_id
              a == resp'[t]
              untouched == repDone[id] = "none" /\ ~ReportInFlight(id)
          IN  /\ a.code = 200 /\ a.request_id = id
              /\ (claimCount[id] = 0 /\ untouched)
                    => (a.status = "pending" /\ a.solution = NoSolution)
              /\ (claimCount[id] > 0 /\ untouched)
                    => (a.status = "processing" /\ a.solution = NoSolution)
              /\ loc[t].snapDone
                    => (a.status = "completed"
                        /\ a.solution = [request_id |-> id, route |-> repDone[id]])]_vars

C6_Witness ==
    \E t \in Threads :
        /\ pc[t] = "done" /\ resp[t].status = "completed"
        /\ resp[t].solution # NoSolution
        /\ claimCount[resp[t].request_id] = 1
        /\ resp[t].solution.route = repDone[resp[t].request_id]

\* C7: claim without lease.  A request that a poll has returned is never
\* selected by a poll again, a poll returns only the request it selected,
\* and while no report is made for it the request stays Processing.
C7_ClaimWithoutLease ==
    /\ [](\A id \in Keys :
            (claimCount[id] > 0 /\ repDone[id] = "none" /\ ~ReportInFlight(id))
                => StatusOf(id) = "processing")
    /\ [][\A t \in Threads :
            /\ PollSelects(t) => (claimCount[loc[t].req_id] = 0
                                  /\ StatusOf(loc[t].req_id) = "pending")
            /\ PollReturns(t) => (resp'[t].code = 200
                                  /\ resp'[t].request_id = loc[t].req_id)]_vars

\* A poll answered empty after the only request of the ledger was claimed,
\* and the request is still Processing.
C7_Witness ==
    /\ Len(requests) = 1
    /\ claimCount[1] = 1
    /\ StatusOf(1) = "processing"
    /\ \E t \in Threads : pc[t] = "done" /\ resp[t].code = 204

\* C8: poll-for-work claims in submission order.  The entry a poll selects
\* is the earliest Pending one of the ledger, the answer carries the payload
\* submitted under its id, and the claim changes the status of that entry
\* and nothing else of the ledger or the solution store.
C8_SubmissionOrder ==
    [][\A t \in Threads :
          /\ PollSelects(t) =>
                \A j \in 1..(Idx(loc[t].req_id) - 1) : requests[j].status # "pending"
          /\ PollReturns(t) =>
                /\ resp'[t].data = submitted[loc[t].req_id]
                /\ Len(requests') = Len(requests)
                /\ \A i \in 1..Len(requests) :
                      IF requests[i].id = loc[t].req_id
                      THEN /\ requests'[i].id = requests[i].id
                           /\ requests'[i].data = requests[i].data
                           /\ requests'[i].status = "processing"
                      ELSE requests'[i] = requests[i]
                /\ solutions' = solutions]_vars

\* Two requests were submitted, the first was claimed, and a poll has now
\* returned the second one with its payload.
C8_Witness ==
    /\ Len(requests) = 2
    /\ claimCount[1] = 1
    /\ \E t \in Threads :
          /\ pc[t] = "done" /\ resp[t].code = 200 /\ resp[t].request_id = 2
          /\ resp[t].data = submitted[2]
          /\ submitted[2] # submitted[1]

\* C9: a status query never answers Completed without the solution.
C9_CompletedHasSolution ==
    \A t \in Threads :
        (pc[t] = "done" /\ resp[t].status = "completed") => resp[t].solution # NoSolution

\* C2: exactly-once config delivery: a confirmed configuration is answered
\* to at most one poll-config caller; two callers never both receive it.
C2_ExactlyOnce == \A g \in Gens : delivered[g] <= 1

\* C10: the config take is an atomic read-and-clear: the step that empties
\* the slot removes only the configuration its call returns, so a
\* configuration confirmed meanwhile stays in the slot.
C10_AtomicTake ==
    [][\A t \in Threads :
          (cpc[t] = "clear" /\ cpc'[t] = "answer" /\ vehicle_config # NoConfig)
              => vehicle_config = cloc[t]]_vars

\* ---------------------------------------------------------------------------
NoPending == \A i \in 1..Len(requests) : requests[i].status # "pending"

\* The answers submit_solution gives to a malformed submission.
SubmitErrors == {"No JSON data provided",
                 "Missing or invalid field: customers (must be array)",
                 "Customer must have: id, demand, x, y"}

\* Thread t takes the step in which submit_solution rejects a submission.
SubmitRejects(t) ==
    pc[t] = "idle" /\ pc'[t] = "done" /\ resp'[t].code = 400
                   /\ resp'[t].status \in SubmitErrors

\* Thread t takes the step in which submit_solution accepts a submission.
SubmitAccepts(t) == pc[t] = "idle" /\ pc'[t] = "done" /\ resp'[t].code = 202

\* C11: ReportSolution for an id that is not in the ledger is rejected and
\* mutates nothing: no report gets into the body of add_solution for an
\* unknown id, nothing is ever stored for one, and the step that answers
\* 'Invalid request_id' leaves the ledger and the solution store as they were.
C11_UnknownIdRejected ==
    /\ [](/\ \A t \in Threads :
                pc[t] \in {"rep_status", "rep_store"} => loc[t].req_id \in Keys
          /\ \A id \in Ids \ Keys : solutions[id] = NoSolution /\ repDone[id] = "none")
    /\ [][\A t \in Threads :
            (pc[t] = "idle" /\ pc'[t] = "done" /\ resp'[t].status = "Invalid request_id")
                => /\ resp'[t].code = 400
                   /\ requests' = requests
                   /\ solutions' = solutions]_vars

\* A report was answered 'Invalid request_id' while the ledger holds a request.
C11_Witness ==
    /\ Len(requests) = 1
    /\ \E t \in Threads :
          pc[t] = "done" /\ resp[t].code = 400 /\ resp[t].status = "Invalid request_id"

\* C12: Submit rejects an empty customer list: no request whose customers
\* field is an empty list is ever in the ledger.
C12_EmptyListRejected ==
    \A i \in 1..Len(requests) : requests[i].data.customers # <<>>

\* C13: a malformed submission mutates no state: the rejecting step leaves
\* the ledger, the solution store and the configuration slot as they were,
\* and no request with a missing or non-list customers field, or with a
\* customer lacking id, demand, x or y, is ever in the ledger.
C13_MalformedNoMutation ==
    /\ [](\A i \in 1..Len(requests) :
             /\ requests[i].data.ctype = "list"
             /\ \A k \in 1..Len(requests[i].data.customers) :
                   FullCustomer \subseteq requests[i].data.customers[k])
    /\ [][\A t \in Threads : SubmitRejects(t) =>
             /\ requests' = requests
             /\ solutions' = solutions
             /\ vehicle_config' = vehicle_config
             /\ vehicle_config_timestamp' = vehicle_config_timestamp]_vars

\* A submission was rejected for a bad customer while the ledger holds a request.
C13_Witness ==
    /\ Len(requests) = 1
    /\ \E t \in Threads :
          /\ pc[t] = "done" /\ resp[t].code = 400
          /\ resp[t].status = "Customer must have: id, demand, x, y"

C16_SubmitSucceeds ==
    /\ [](\A t \in Threads :
             (pc[t] = "idle" /\ calls < MaxCalls /\ Len(requests) < MaxReq)
                => ENABLED (SubmitRequest(t, [ctype |-> "list", customers |-> <<FullCustomer>>])
                            /\ resp'[t].code = 202))
    /\ [][\A t \in Threads : SubmitAccepts(t) =>
             LET n == Len(requests)
                 id == resp'[t].request_id
             IN  /\ Len(requests') = n + 1
                 /\ SubSeq(requests', 1, n) = requests
                 /\ id \notin Keys
                 /\ requests'[n + 1] = [id |-> id, data |-> submitted'[id], status |-> "pending"]
                 /\ solutions' = solutions]_vars

\* A second request was accepted while the first one is Processing.
C16_Witness ==
    /\ Len(requests) = 2
    /\ requests[1].status = "processing"
    /\ requests[2].status = "pending"
    /\ \E t \in Threads : pc[t] = "done" /\ resp[t].code = 202 /\ resp[t].request_id = 2

\* C17: the ledger only grows: no step removes a request or changes the id
\* or the payload of an existing request.
C17_LedgerGrows ==
    [][/\ Len(requests') >= Len(requests)
       /\ \A i \in 1..Len(requests) :
             /\ requests'[i].id = requests[i].id
             /\ requests'[i].data = requests[i].data]_vars

\* Two requests, the first claimed and completed, both with their payloads.
C17_Witness ==
    /\ Len(requests) = 2
    /\ requests[1].status = "completed"
    /\ claimCount[1] = 1
    /\ HasSolution(1)
    /\ \A i \in 1..2 : requests[i].data = submitted[requests[i].id]

\* C14: the fleet config slot is a single slot with overwrite.  The slot
\* never holds anything but the most recently confirmed configuration; a
\* poll-config call answers 204 only on an empty slot and goes on only on a
\* filled one; its clear step empties the slot, which then stays empty until
\* a confirm; and a call during which no configuration was confirmed
\* answers the most recently confirmed one.
C14_SingleSlot ==
    /\ [](vehicle_config # NoConfig => vehicle_config.gen = nConfirmed)
    /\ [][/\ (vehicle_config = NoConfig /\ vehicle_config' # NoConfig)
                => nConfirmed' = nConfirmed + 1
          /\ \A t \in Threads :
                /\ (cpc[t] = "idle" /\ cpc'[t] = "done" /\ cresp'[t].code = 204)
                      => (vehicle_config = NoConfig /\ vehicle_config' = NoConfig)
                /\ (cpc[t] = "idle" /\ cpc'[t] = "copy") => vehicle_config # NoConfig
                /\ (cpc[t] = "clear" /\ cpc'[t] = "answer") => vehicle_config' = NoConfig
                /\ (cpc[t] = "answer" /\ cpc'[t] = "done")
                      => /\ cresp'[t].code = 200
                         /\ cresp'[t].vehicles = cloc[t].vehicles
                         /\ cresp'[t].depot = cloc[t].depot
                         /\ cseen[t] = nConfirmed => cresp'[t].gen = nConfirmed]_vars

\* Two configurations were confirmed, the second was answered to a poll,
\* the first to none, and a further poll was answered 204.
C14_Witness ==
    /\ nConfirmed = 2
    /\ delivered[1] = 0 /\ delivered[2] = 1
    /\ vehicle_config = NoConfig
    /\ \E t \in Threads : cpc[t] = "done" /\ cresp[t].code = 204

\* Thread t holds the answer of a listing call.
Listed(t) == apc[t] = "done" /\ aresp[t].code = 200 /\ aresp[t].agent = NoName

\* C18: the agent listing is ordered: in every list get_agent_status
\* answers, no Dispatcher-type agent stands before a RouteManager-type
\* agent, and the Dispatcher-type agents stand in ascending order of name.
C18_ListingOrder ==
    \A t \in Threads :
       Listed(t) =>
          \A i, j \in 1..Len(aresp[t].agents) :
             i < j =>
                LET a == aresp[t].agents[i]
                    b == aresp[t].agents[j]
                IN /\ ~(a.type = "da" /\ b.type = "mra")
                   /\ (a.type = "da" /\ b.type = "da") => StrLess(a.name, b.name)

\* A listing of three agents was answered while the dict holds them in
\* another order: a Dispatcher first, a RouteManager after it, and two
\* Dispatchers in descending order of name.
C18_Witness ==
    \E t \in Threads :
       /\ Listed(t)
       /\ Len(aresp[t].agents) = 3
       /\ Len(agent_status) = 3
       /\ agent_status[1].type = "da"
       /\ \E i \in 2..3 : agent_status[i].type = "mra"
       /\ \E i \in 2..3 : agent_status[i].type = "da"
                             /\ StrLess(agent_status[i].name, agent_status[1].name)

\* The record the dict holds for name n, NoAgent when it holds none.
AgentEntry(n) == IF n \in AgentKeys THEN agent_status[AgentIdx(n)] ELSE NoAgent

\* The listed records that carry name n.
ListedFor(agents, n) == {i \in 1..Len(agents) : agents[i].name = n}

\* C19: agent status updates are last-write-wins and wholesale.  The dict
\* holds one entry per updated name, carrying exactly the type, status and
\* info of the last accepted update for that name; an update leaves the
\* entries of all other names as they were; and a listing during which no
\* update was stored lists, for each updated name, one record with the
\* type, status and info of its last update (info left out when empty).
C19_LastWriteWins ==
    /\ [](/\ \A i, j \in 1..Len(agent_status) :
                agent_status[i].name = agent_status[j].name => i = j
          /\ \A n \in AgentNames :
                /\ n \in AgentKeys <=> lastUpdate[n] # NoUpdate
                /\ n \in AgentKeys =>
                      /\ AgentEntry(n).type = lastUpdate[n].type
                      /\ AgentEntry(n).status = lastUpdate[n].status
                      /\ AgentEntry(n).info = lastUpdate[n].info)
    /\ [][/\ \A t \in Threads :
                (apc[t] = "idle" /\ apc'[t] = "done" /\ aresp'[t].code = 200) =>
                   /\ aresp'[t].agent \in AgentNames
                   /\ \A n \in AgentNames \ {aresp'[t].agent} :
                         AgentEntry(n)' = AgentEntry(n)
          /\ \A t \in Threads :
                (apc[t] = "scan" /\ apc'[t] = "done" /\ aresp'[t].code = 200 /\ ~adirty[t]) =>
                   /\ Len(aresp'[t].agents) = Len(agent_status)
                   /\ \A n \in AgentKeys :
                         \E i \in 1..Len(aresp'[t].agents) :
                            LET a == aresp'[t].agents[i]
                            IN /\ ListedFor(aresp'[t].agents, n) = {i}
                               /\ a.type = lastUpdate[n].type
                               /\ a.status = lastUpdate[n].status
                               /\ a.has_info = (lastUpdate[n].info # {})
                               /\ a.has_info => a.info = lastUpdate[n].info]_vars

\* A name was updated with an info and listed, then updated without info,
\* and a later listing, with no update stored during it, shows the name
\* without info.
C19_Witness ==
    \E t, u \in Threads, n \in AgentNames :
       /\ Listed(t) /\ Listed(u) /\ ~adirty[t] /\ ~adirty[u]
       /\ \E i \in ListedFor(aresp[t].agents, n) : aresp[t].agents[i].has_info
       /\ \E i \in ListedFor(aresp[u].agents, n) : ~aresp[u].agents[i].has_info
       /\ AgentEntry(n).info = {}
       /\ AgentEntry(n).status = "inactive"

\* C20: vehicle telemetry is last-write-wins per vehicle.  The entry of a
\* vehicle is the position of the last accepted update for it (none when
\* there was no update), so no earlier position remains readable; an update
\* leaves every other vehicle's entry as it was; and a position query
\* answers 404 exactly when no update was made for the vehicle, and
\* otherwise 200 with the position of the last update for it.
C20_TelemetryLastWriteWins ==
    /\ [](\A n \in VehicleNames : vehicle_positions[n] = lastPos[n])
    /\ [][\A t \in Threads :
             /\ (vpc[t] = "idle" /\ vpc'[t] = "done" /\ vresp'[t].code = 200) =>
                   /\ vresp'[t].vehicle \in VehicleNames
                   /\ \A n \in VehicleNames \ {vresp'[t].vehicle} :
                         vehicle_positions'[n] = vehicle_positions[n]
             /\ (vpc[t] = "idle" /\ vpc'[t] = "done" /\ vresp'[t].code = 404) =>
                   lastPos[vloc'[t]] = NoPos
             /\ (vpc[t] = "idle" /\ vpc'[t] = "read") => lastPos[vloc'[t]] # NoPos
             /\ (vpc[t] = "read" /\ vpc'[t] = "done") =>
                   /\ vresp'[t].code = 200
                   /\ vresp'[t].vehicle = vloc[t]
                   /\ vresp'[t].position = lastPos[vloc[t]]
                   /\ vresp'[t].position # NoPos]_vars

\* A vehicle was updated, queried, updated again with another position and
\* queried again: the later answer carries the later position, which is the
\* one stored.
C20_Witness ==
    \E t, u \in Threads, n \in VehicleNames :
       /\ vpc[t] = "done" /\ vresp[t].code = 200 /\ vresp[t].vehicle = n
       /\ vpc[u] = "done" /\ vresp[u].code = 200 /\ vresp[u].vehicle = n
       /\ vresp[t].position # NoPos /\ vresp[u].position # NoPos
       /\ vresp[t].position.timestamp < vresp[u].position.timestamp
       /\ vresp[t].position.x # vresp[u].position.x
       /\ vresp[u].position = vehicle_positions[n]

\* C25: the timestamp answered with a taken fleet config belongs to that
\* config: every non-empty poll-config answer carries the time stamped by
\* the confirm call that stored the answered vehicles and depot, and that
\* time is set.
C25_TimestampOfConfig ==
    [][\A t \in Threads :
          (cpc[t] = "answer" /\ cpc'[t] = "done") =>
             /\ cresp'[t].timestamp # 0
             /\ cresp'[t].timestamp = stampOf[cresp'[t].gen]]_vars

\* C26: no claim is lost inside the poll handler: the call whose
\* get_pending_request moves a request to Processing answers 200 with that
\* request's id and the payload Submit accepted for it, and a poll answers
\* 204 only from a scan that selected no request.
C26_NoLostClaim ==
    [][\A t \in Threads :
          /\ PollReturns(t) =>
                /\ requests'[Idx(loc[t].req_id)].status = "processing"
                /\ resp'[t].code = 200
                /\ resp'[t].request_id = loc[t].req_id
                /\ resp'[t].data = submitted[loc[t].req_id]
          /\ (pc'[t] = "done" /\ pc[t] # "done" /\ resp'[t].code = 204) => pc[t] = "iter"]_vars

\* A request submitted with an empty customers list was moved to
\* Processing and answered by the poll that moved it.
C26_Witness ==
    \E t \in Threads, i \in 1..Len(requests) :
       /\ pc[t] = "done" /\ resp[t].code = 200
       /\ resp[t].request_id = requests[i].id
       /\ resp[t].data = [ctype |-> "list", customers |-> <<>>]
       /\ requests[i].status = "processing"
       /\ claimCount[requests[i].id] = 1

\* C27: the active counts of the agent listing are consistent: total_active
\* is the number of listed agents whose status is active, and it equals
\* mra_count + da_count.
C27_ActiveCounts ==
    \A t \in Threads :
       Listed(t) =>
          /\ aresp[t].total_active =
                Cardinality({i \in 1..Len(aresp[t].agents) :
                                aresp[t].agents[i].status = "active"})
          /\ aresp[t].total_active = aresp[t].mra_count + aresp[t].da_count

\* C24: an unreachable backend is surfaced as its own outcome: a frontend
\* call whose call to the backend ended in a refused connection or a
\* timeout answers 503, and never a success.
C24_UnreachableIs503 ==
    fresp.backend.exc \in BackendExceptions =>
       fresp.code = 503 /\ ~fresp.success

\* re.match(r'\[([^\]]+)\]', line), the bracketed-timestamp pattern of the
\* views: the line begins with a bracketed timestamp.
HasTimestamp(line) == line # <<>> /\ line[1].k = "t"

\* The number of lines of a text that begin with a bracketed timestamp.
TimestampedLines(lines) == Cardinality({i \in 1..Len(lines) : HasTimestamp(lines[i])})

\* The entries view was answered for agent a from a log that exists.
EntriesOf(a) == out.view = "entries" /\ out.agent = a /\ out.error = "none"

\* C30: logical entries are reconstructed from physical lines: the entries
\* answered for a log are as many as its lines that begin with a bracketed
\* timestamp, in file order, each with the timestamp of its line.
C30_EntriesFromLines ==
    \A a \in LogAgents :
       EntriesOf(a) =>
          LET lines == out.read[a].lines
              starts == {i \in 1..Len(lines) : HasTimestamp(lines[i])}
          IN /\ Len(out.entries) = TimestampedLines(lines)
             /\ \A i \in starts :
                   LET k == Cardinality({j \in starts : j <= i})
                   IN k <= Len(out.entries) => out.entries[k].timestamp = lines[i][1].s

\* A line that carries a movement marker but malformed coordinates: one
\* of the position keywords, no pair of numbers that float() accepts
\* where the position is looked for, and no other marker.
Malformed(line) ==
    /\ HasPositionKeyword(line)
    /\ QueuePart(line, FreshScan) = FreshScan
    /\ RoutePart(line, FreshScan) = FreshScan
    /\ \/ PosMatch(line) = NoneTok
       \/ ~(IsFloat(PosMatch(line).x) /\ IsFloat(PosMatch(line).y))

\* The text without its malformed lines.
RECURSIVE WithoutMalformed(_)
WithoutMalformed(lines) ==
    IF lines = <<>> THEN <<>>
    ELSE IF Malformed(Head(lines)) THEN WithoutMalformed(Tail(lines))
    ELSE <<Head(lines)>> \o WithoutMalformed(Tail(lines))

\* C22: a malformed log line is never fatal: the movement view answers for
\* a log what it answers for the same log without its malformed lines.
C22_MalformedSkipped ==
    (out.view = "movements" /\ out.queue_status.present) =>
       LET st == ScanMovements(WithoutMalformed(out.read[out.agent].lines), 1, FreshScan)
       IN /\ out.movements = st.positions
          /\ out.routes = st.route_info
          /\ out.queue_status.queue_size = st.queue_size
          /\ out.queue_status.current_route = st.current_route

\* The last marker of a kind in file order, NoneTok when the text has none.
LastMarker(content, ph, kinds) ==
    LET ms == Matches(content, ph, kinds)
    IN IF ms = {} THEN NoneTok ELSE Captured(content, ph, LastOf(ms))
\* The place of the last claim marker and of the last queue-size marker of
\* the text, 0 when it has none.
LastClaim(content) ==
    LET ends == UNION {ClaimEnds(content, i) : i \in 1..Len(content)}
    IN IF ends = {} THEN 0 ELSE LastOf(ends)
LastQueueSize(content) ==
    LET ms == Matches(content, Ws(<<"Queue", "size", ":">>), {"n"})
    IN IF ms = {} THEN 0 ELSE LastOf(ms)

\* The texts the last system-state view read.
MraRead == Content(out.read["MRA"].lines)
DaRead == Content(out.read["DA-1"].lines)

\* C28: the system-state view reports, for the unserved-customer count,
\* the queue size and the current route id, the value of the last matching
\* marker of the log in file order.
C28_LastMarkerReported ==
    (out.view = "state" /\ out.state.present) =>
       /\ LastMarker(MraRead, Ws(<<"Unserved", "customers", ":">>), {"n"}) # NoneTok =>
             out.state.mra.unserved_customers =
                LastMarker(MraRead, Ws(<<"Unserved", "customers", ":">>), {"n"}).n
       /\ LastMarker(DaRead, Ws(<<"Queue", "size", ":">>), {"n"}) # NoneTok =>
             out.state.da.queue_size =
                LastMarker(DaRead, Ws(<<"Queue", "size", ":">>), {"n"}).n
       /\ LastClaim(DaRead) # 0 =>
             out.state.da.current_route = Captured(DaRead, ClaimPhrase, LastClaim(DaRead))

\* C29: the status of a dispatcher in the system-state view is Executing
\* exactly when a claim marker is the most recent queue-related marker of
\* its log, otherwise Queued when the queue size is above 0, otherwise
\* Idle.
C29_StatusPriority ==
    (out.view = "state" /\ out.state.da.present) =>
       out.state.da.status =
          IF LastClaim(DaRead) > LastQueueSize(DaRead) THEN "executing"
          ELSE IF out.state.da.queue_size > 0 THEN "queued"
          ELSE "idle"

\* C23: absence of logs means no data, not failure: a view that finds the
\* log directory or the log file it reads missing answers an empty result
\* and no error.
C23_AbsentIsEmpty ==
    /\ (out.view = "entries" /\ ~out.read[out.agent].exists) =>
          out.entries = <<>> /\ out.error = "none"
    /\ (out.view = "movements" /\ ~out.read["DA-1"].exists) =>
          /\ out.movements = <<>> /\ out.routes = <<>> /\ ~out.queue_status.present
          /\ out.error = "none"
    /\ (out.view = "communication" /\ ~out.read["MRA"].exists) =>
          out.communications = <<>> /\ out.error = "none"
    /\ (out.view = "state" /\ ~out.read["MRA"].exists) =>
          out.state.mra = DefaultMra /\ out.error = "none"
    /\ (out.view = "state" /\ ~out.read["DA-1"].exists) =>
          ~out.state.da.present /\ out.error = "none"

Raises(line) ==
    /\ HasPositionKeyword(line)
    /\ PosMatch(line) # NoneTok
    /\ ~(IsFloat(PosMatch(line).x) /\ IsFloat(PosMatch(line).y))

\* The movement event the rule gives for a line: none unless the line has
\* a position keyword and a well-formed pair; otherwise one event with the
\* pair's coordinates, the line's timestamp, and the kind of the first of
\* 'ARRIVED at customer', 'RETURNED to depot', 'Starting route' the line
\* contains, moving when it contains none; an arrival names the customer.
WellFormed(tok) == tok.k = "p" /\ IsFloat(tok.x) /\ IsFloat(tok.y)
EventsOfLine(line) ==
    IF ~(HasPositionKeyword(line) /\ \E i \in 1..Len(line) : WellFormed(line[i])) THEN <<>>
    ELSE LET pair == line[CHOOSE i \in 1..Len(line) :
                             WellFormed(line[i]) /\ \A j \in 1..(i - 1) : ~WellFormed(line[j])]
             arrived == {i \in 1..Len(line) : PhraseAt(line, Ws(<<"ARRIVED", "at", "customer">>), i)}
             returned == HasPhrase(line, Ws(<<"RETURNED", "to", "depot">>))
             starting == HasPhrase(line, Ws(<<"Starting", "route">>))
         IN <<[timestamp |-> IF HasTimestamp(line) THEN line[1].s ELSE "None",
               x |-> FloatOf(pair.x), y |-> FloatOf(pair.y),
               event |-> CASE arrived # {} -> "arrival"
                           [] arrived = {} /\ returned -> "depot"
                           [] arrived = {} /\ ~returned /\ starting -> "route_start"
                           [] OTHER -> "moving",
               customer |-> IF arrived # {} /\ FirstOf(arrived) + 3 <= Len(line)
                                           /\ line[FirstOf(arrived) + 3].k # "p"
                            THEN line[FirstOf(arrived) + 3] ELSE NoneTok]>>
RECURSIVE EventsOfLines(_)
EventsOfLines(lines) ==
    IF lines = <<>> THEN <<>> ELSE EventsOfLine(Head(lines)) \o EventsOfLines(Tail(lines))

QueueNumber(line) ==
    LET remaining == Capture(line, Ws(<<"Remaining", "routes", "in", "queue", ":">>), {"n"})
        size == Capture(line, Ws(<<"Queue", "size", ":">>), {"n"})
    IN IF HasPhrase(line, Ws(<<"Processing", "route", "from", "queue">>)) /\ remaining # NoneTok
       THEN remaining
       ELSE IF HasPhrase(Lower(line), Ws(<<"added", "to", "queue">>)) THEN size
       ELSE NoneTok
ClaimedRoute(line) ==
    IF HasPhrase(line, Ws(<<"Processing", "route", "from", "queue">>))
    THEN Capture(line, Ws(<<"Processing", "route", "from", "queue", ":">>), AnyToken)
    ELSE NoneTok

Announced(line) ==
    IF HasPhrase(line, Ws(<<">>>", "SENT", "MESSAGE">>)) THEN "sent"
    ELSE IF HasPhrase(line, Ws(<<"<<<", "RECEIVED", "MESSAGE">>)) THEN "received"
    ELSE "none"

\* C33: message-announcing markers are recorded with their single-line
\* detail: for every line of the route manager's log with a SENT MESSAGE or
\* RECEIVED MESSAGE marker the communication view has one event of that
\* direction with the line's timestamp.
C33_MarkersRecorded ==
    (out.view = "communication" /\ out.read["MRA"].exists) =>
       \A i \in 1..Len(out.read["MRA"].lines) :
          LET line == out.read["MRA"].lines[i]
          IN Announced(line) # "none" =>
                \E j \in 1..Len(out.communications) :
                   /\ out.communications[j].type = Announced(line)
                   /\ out.communications[j].timestamp = TimestampOf(line)

\* C34: log listing and log lookup agree on file names: the endpoint the
\* listing publishes for a file of the logs directory resolves, in the
\* lookup, to that same file.
C34_NameRoundTrip ==
    lookup.code # 0 =>
       /\ lookup.code = 200
       /\ lookup.log_file = lookup.published
====
